---- MODULE Spec2Model ----
(***************************************************************************)
(* Matching engine of the exchange: the per-market Orderbook               *)
(* (engine/src/trade/Orderbook.ts), the balance ledger and the command     *)
(* dispatcher Engine.process (engine/src/trade/Engine.ts).                 *)
(*                                                                         *)
(* Prices, quantities and balances are decimal text in the code, handled   *)
(* only through the decimal.js wrapper (utils/decimal.ts).  The model      *)
(* keeps the decimal value of a canonical text as an integer; the wrapper  *)
(* operations are exact on the values used here.                           *)
(***************************************************************************)
EXTENDS Integers, Sequences, FiniteSets, TLC

(* ---------------- bounds and input sets ---------------- *)

\* at most this many commands are handed to Engine.process in one behaviour
MaxCmds == 3

\* seed balances of setBaseBalances
SeedINR == 1000000
SeedTATA == 1000

BASE_CURRENCY == "INR"

\* users "1" and "2" are seeded by setBaseBalances; "7" is not in the ledger
\* until an ON_RAMP creates it (as for a user registered through the API)
CmdUsers == {"1", "2", "7"}
\* the users of the commands that do not trade (queries, ON_RAMP, WITHDRAW)
LedgerUsers == {"1", "7"}
Markets == {"TATA_INR", "SOL_INR"}
Sides == {"buy", "sell"}
Prices == {1, 2}
Quantities == {-1, 1, 2}
\* the ON_RAMP and WITHDRAW routes of the API answer 400 unless amount > 0
Amounts == {1, 2}
\* the transaction ids the withdraw route makes up
TxnIds == {"withdraw_1", "withdraw_2"}
StpModes == {"CANCEL_NEWEST", "CANCEL_OLDEST", "CANCEL_BOTH"}

(* ---------------- utils/decimal.ts ---------------- *)

add(a, b) == a + b
subtract(a, b) == a - b
multiply(a, b) == a * b
min(a, b) == IF a < b THEN a ELSE b
isGreater(a, b) == a > b
isLess(a, b) == a < b
isGreaterOrEqual(a, b) == a >= b
isLessOrEqual(a, b) == a <= b
isEqual(a, b) == a = b

(* ---------------- generic helpers ---------------- *)

RECURSIVE SumSeq(_)
SumSeq(s) == IF s = <<>> THEN 0 ELSE Head(s) + SumSeq(Tail(s))

\* Array.prototype.splice(i, 1)
RemoveAt(s, i) == SubSeq(s, 1, i - 1) \o SubSeq(s, i + 1, Len(s))

\* Array.prototype.splice(i, 0, x) with a 0-based index i
InsertAt(s, i, x) == SubSeq(s, 1, i) \o <<x>> \o SubSeq(s, i + 1, Len(s))

\* a search that settles on the head of the array when the id is absent
FindIndexOrHead(s, oid) ==
    IF \E i \in 1..Len(s) : s[i].orderId = oid
    THEN CHOOSE i \in 1..Len(s) :
            s[i].orderId = oid /\ \A j \in 1..(i - 1) : s[j].orderId # oid
    ELSE IF Len(s) > 0 THEN 1 ELSE 0

\* Array.prototype.findIndex on orderId, 1-based, 0 when absent
FindIndex(s, oid) ==
    IF \E i \in 1..Len(s) : s[i].orderId = oid
    THEN CHOOSE i \in 1..Len(s) :
            s[i].orderId = oid /\ \A j \in 1..(i - 1) : s[j].orderId # oid
    ELSE 0

\* what cancelBid / cancelAsk return when the order is not in the side
undefined == <<>>

(* ---------------- Orderbook ---------------- *)

\* Map.get(price) || "0"
DepthGet(m, price) == IF price \in DOMAIN m THEN m[price] ELSE 0

\* updateDepth that keeps a level whose aggregate reached zero
updateDepthMapNoDelete(m, price, delta) ==
    LET newValue == add(DepthGet(m, price), delta)
    IN [q \in (DOMAIN m) \cup {price} |-> IF q = price THEN newValue ELSE m[q]]

updateDepthMap(m, price, delta) ==
    LET newValue == add(DepthGet(m, price), delta)
    IN IF isLessOrEqual(newValue, 0)
       THEN [q \in (DOMAIN m) \ {price} |-> m[q]]
       ELSE [q \in (DOMAIN m) \cup {price} |-> IF q = price THEN newValue ELSE m[q]]

updateDepth(ob, side, price, delta) ==
    IF side = "buy"
    THEN [ob EXCEPT !.bidsDepth = updateDepthMap(ob.bidsDepth, price, delta)]
    ELSE [ob EXCEPT !.asksDepth = updateDepthMap(ob.asksDepth, price, delta)]

RECURSIVE rebuildSide(_, _)
rebuildSide(orders, m) ==
    IF orders = <<>> THEN m
    ELSE LET order == Head(orders)
             remaining == subtract(order.quantity, order.filled)
             current == DepthGet(m, order.price)
         IN rebuildSide(Tail(orders),
                [q \in (DOMAIN m) \cup {order.price} |->
                    IF q = order.price THEN add(current, remaining) ELSE m[q]])

EmptyMap == [q \in {} |-> 0]

rebuildDepthCache(ob) ==
    [ob EXCEPT !.bidsDepth = rebuildSide(ob.bids, EmptyMap),
               !.asksDepth = rebuildSide(ob.asks, EmptyMap)]

\* stable insertion of x into an already sorted sequence, after its equals
RECURSIVE StableInsert(_, _, _)
StableInsert(sorted, x, side) ==
    IF sorted = <<>> THEN <<x>>
    ELSE IF (IF side = "buy" THEN isGreater(x.price, Head(sorted).price)
                             ELSE isLess(x.price, Head(sorted).price))
         THEN <<x>> \o sorted
         ELSE <<Head(sorted)>> \o StableInsert(Tail(sorted), x, side)

\* Array.prototype.sort with the comparator of sortOrders (a stable sort)
RECURSIVE StableSort(_, _)
StableSort(s, side) ==
    IF s = <<>> THEN <<>>
    ELSE StableInsert(StableSort(SubSeq(s, 1, Len(s) - 1), side), s[Len(s)], side)

\* a constructor that takes the arrays as they come
sortOrdersSkipped(ob) == ob

sortOrders(ob) ==
    [ob EXCEPT !.bids = StableSort(ob.bids, "buy"),
               !.asks = StableSort(ob.asks, "sell")]

\* new Orderbook(baseAsset, bids, asks, lastTradeId, currentPrice, stpMode)
NewOrderbook(baseAsset, bidsIn, asksIn, lastTradeIdIn, currentPriceIn, mode) ==
    rebuildDepthCache(sortOrders(
        [baseAsset |-> baseAsset, quoteAsset |-> BASE_CURRENCY,
         bids |-> bidsIn, asks |-> asksIn,
         lastTradeId |-> lastTradeIdIn, currentPrice |-> currentPriceIn,
         stpMode |-> mode, bidsDepth |-> EmptyMap, asksDepth |-> EmptyMap]))

\* `${baseAsset}_${quoteAsset}` and market.split("_"), as tables over the symbols used
ticker(ob) == IF ob.baseAsset = "TATA" /\ ob.quoteAsset = "INR" THEN "TATA_INR" ELSE "SOL_INR"
baseOf(market) == IF market = "TATA_INR" THEN "TATA" ELSE "SOL"
quoteOf(market) == "INR"

\* binary search of findInsertIndex; low and high are 0-based as in the code
RECURSIVE findInsertLoop(_, _, _, _, _)
findInsertLoop(arr, price, side, low, high) ==
    IF low < high
    THEN LET mid == (low + high) \div 2
             shouldGoLeft == IF side = "buy"
                             THEN isGreater(price, arr[mid + 1].price)
                             ELSE isLess(price, arr[mid + 1].price)
         IN IF shouldGoLeft
            THEN findInsertLoop(arr, price, side, low, mid)
            ELSE findInsertLoop(arr, price, side, mid + 1, high)
    ELSE low

\* an insertion index in front of the resting orders of the same price
findInsertIndexBeforeEquals(arr, price, side) ==
    Cardinality({i \in 1..Len(arr) :
                    IF side = "buy" THEN isGreater(arr[i].price, price)
                                    ELSE isLess(arr[i].price, price)})

findInsertIndex(arr, price, side) == findInsertLoop(arr, price, side, 0, Len(arr))

\* a crossing test that lets equal prices rest against each other
pricesCrossStrict(side, restingPrice, incomingPrice) ==
    IF side = "buy"
    THEN isLess(restingPrice, incomingPrice)
    ELSE isGreater(restingPrice, incomingPrice)

\* does the resting price cross the incoming price
pricesCross(side, restingPrice, incomingPrice) ==
    IF side = "buy"
    THEN isLessOrEqual(restingPrice, incomingPrice)
    ELSE isGreaterOrEqual(restingPrice, incomingPrice)

\* the loop of wouldSelfTrade: conflicting orders among the matchable prefix
RECURSIVE conflictsLoop(_, _)
conflictsLoop(oppositeBook, order) ==
    IF oppositeBook = <<>> THEN <<>>
    ELSE LET restingOrder == Head(oppositeBook)
         IN IF ~pricesCross(order.side, restingOrder.price, order.price)
            THEN <<>>
            ELSE (IF restingOrder.userId = order.userId THEN <<restingOrder>> ELSE <<>>)
                 \o conflictsLoop(Tail(oppositeBook), order)

\* a check that looks at the best opposite order only
wouldSelfTradeBestOnly(ob, order) ==
    LET oppositeBook == IF order.side = "buy" THEN ob.asks ELSE ob.bids
    IN conflictsLoop(IF oppositeBook = <<>> THEN <<>> ELSE <<Head(oppositeBook)>>, order)

wouldSelfTrade(ob, order) ==
    conflictsLoop(IF order.side = "buy" THEN ob.asks ELSE ob.bids, order)

cancelBid(ob, order) ==
    LET index == FindIndex(ob.bids, order.orderId)
    IN IF index # 0
       THEN LET cancelledOrder == ob.bids[index]
                remaining == subtract(cancelledOrder.quantity, cancelledOrder.filled)
                ob1 == updateDepth(ob, "buy", cancelledOrder.price, subtract(0, remaining))
            IN [ob1 EXCEPT !.bids = RemoveAt(ob.bids, index)]
       ELSE ob

cancelAsk(ob, order) ==
    LET index == FindIndex(ob.asks, order.orderId)
    IN IF index # 0
       THEN LET cancelledOrder == ob.asks[index]
                remaining == subtract(cancelledOrder.quantity, cancelledOrder.filled)
                ob1 == updateDepth(ob, "sell", cancelledOrder.price, subtract(0, remaining))
            IN [ob1 EXCEPT !.asks = RemoveAt(ob.asks, index)]
       ELSE ob

\* the value cancelBid returns: the price of the cancelled order, or undefined
cancelBidReturn(ob, order) ==
    IF FindIndex(ob.bids, order.orderId) # 0
    THEN <<ob.bids[FindIndex(ob.bids, order.orderId)].price>> ELSE undefined

\* the value cancelAsk returns
cancelAskReturn(ob, order) ==
    IF FindIndex(ob.asks, order.orderId) # 0
    THEN <<ob.asks[FindIndex(ob.asks, order.orderId)].price>> ELSE undefined

\* a conflicting order that is left in the book
cancelConflictKeepsOrder(ob, conflict) == ob

\* the body of the loop over conflictingOrders
cancelConflict(ob, conflict) ==
    IF conflict.side = "buy" THEN cancelBid(ob, conflict) ELSE cancelAsk(ob, conflict)

RECURSIVE cancelConflicts(_, _)
cancelConflicts(ob, conflictingOrders) ==
    IF conflictingOrders = <<>> THEN ob
    ELSE cancelConflicts(cancelConflict(ob, Head(conflictingOrders)),
                         Tail(conflictingOrders))

\* this.lastTradeId++ : the counter after a fill
nextTradeId(lastTradeId) == lastTradeId + 1

\* a fill booked at the taker's limit price
fillPriceOfTaker(makerOrder, incomingOrder) == incomingOrder.price

\* the price a fill is booked at
fillPrice(makerOrder, incomingOrder) == makerOrder.price

\* a maker that is kept however much of it was filled
makerNeverRemoved(makerOrder) == FALSE

\* isEqual(makerOrder.filled, makerOrder.quantity): the maker is spliced out
makerFullyFilled(makerOrder) == isEqual(makerOrder.filled, makerOrder.quantity)

\* the while loop of matchOrder; st.i is the 0-based index of the code
RECURSIVE matchLoop(_, _, _)
matchLoop(st, incomingOrder, side) ==
    LET book == IF side = "buy" THEN st.ob.asks ELSE st.ob.bids
    IN IF ~(st.i < Len(book) /\ isGreater(st.qtyToFill, 0)) THEN st
       ELSE LET makerOrder == book[st.i + 1]
            IN IF ~pricesCross(side, makerOrder.price, incomingOrder.price) THEN st
               ELSE IF makerOrder.userId = incomingOrder.userId
               THEN matchLoop([st EXCEPT !.i = st.i + 1], incomingOrder, side)
               ELSE
                 LET remainingMaker == subtract(makerOrder.quantity, makerOrder.filled)
                     fillQty == min(st.qtyToFill, remainingMaker)
                     newMaker == [makerOrder EXCEPT !.filled = add(makerOrder.filled, fillQty)]
                     makerSide == IF side = "buy" THEN "sell" ELSE "buy"
                     ob1 == updateDepth(st.ob, makerSide, makerOrder.price, subtract(0, fillQty))
                     fill == [price |-> fillPrice(makerOrder, incomingOrder),
                              qty |-> fillQty,
                              tradeId |-> st.ob.lastTradeId,
                              otherUserId |-> makerOrder.userId,
                              markerOrderId |-> makerOrder.orderId]
                     removed == makerFullyFilled(newMaker)
                     newBook == IF removed THEN RemoveAt(book, st.i + 1)
                                ELSE [book EXCEPT ![st.i + 1] = newMaker]
                     ob2 == [ob1 EXCEPT !.lastTradeId = nextTradeId(st.ob.lastTradeId),
                                        !.currentPrice = makerOrder.price]
                     ob3 == IF side = "buy" THEN [ob2 EXCEPT !.asks = newBook]
                                            ELSE [ob2 EXCEPT !.bids = newBook]
                 IN matchLoop([ob |-> ob3,
                               i |-> IF removed THEN st.i ELSE st.i + 1,
                               qtyToFill |-> subtract(st.qtyToFill, fillQty),
                               executedQty |-> add(st.executedQty, fillQty),
                               fills |-> Append(st.fills, fill)],
                              incomingOrder, side)

matchOrder(ob, incomingOrder, side) ==
    matchLoop([ob |-> ob, i |-> 0, qtyToFill |-> incomingOrder.quantity,
               executedQty |-> 0, fills |-> <<>>], incomingOrder, side)

\* a residue always reported as ACCEPTED
restStatusAccepted(executedQty) == "ACCEPTED"

\* the status of an order whose remainder was inserted into the book
restStatus(executedQty) ==
    IF isGreater(executedQty, 0) THEN "PARTIALLY_FILLED" ELSE "ACCEPTED"

\* addOrder step 4: the remainder of an order that was not fully filled rests
\* in the book; result is what matchOrder returned
addOrderRest(result, order) ==
    LET placed == [order EXCEPT !.filled = result.executedQty]
    IN IF isLess(placed.filled, placed.quantity)
       THEN LET remaining == subtract(placed.quantity, placed.filled)
                obI == IF placed.side = "buy"
                       THEN [result.ob EXCEPT !.bids =
                              InsertAt(result.ob.bids,
                                  findInsertIndex(result.ob.bids, placed.price, "buy"),
                                  placed)]
                       ELSE [result.ob EXCEPT !.asks =
                              InsertAt(result.ob.asks,
                                  findInsertIndex(result.ob.asks, placed.price, "sell"),
                                  placed)]
            IN [ob |-> updateDepth(obI, placed.side, placed.price, remaining),
                status |-> restStatus(result.executedQty),
                executedQty |-> result.executedQty, fills |-> result.fills,
                rejectionReason |-> "", cancelledOrders |-> <<>>]
       ELSE [ob |-> result.ob, status |-> "ACCEPTED",
             executedQty |-> result.executedQty, fills |-> result.fills,
             rejectionReason |-> "", cancelledOrders |-> <<>>]

\* addOrder after the conflicting orders were removed (obC is the book then):
\* CANCEL_BOTH rejects, otherwise the order is matched
addOrderMatch(obC, conflictingOrders, order) ==
    IF Len(conflictingOrders) > 0 /\ obC.stpMode = "CANCEL_BOTH"
    THEN [ob |-> obC, status |-> "REJECTED", executedQty |-> 0, fills |-> <<>>,
          rejectionReason |-> "STP: Cancel Both",
          cancelledOrders |-> [k \in 1..Len(conflictingOrders) |->
                                  conflictingOrders[k].orderId]]
    ELSE addOrderRest(matchOrder(obC, order, order.side), order)

\* an addOrder that goes on to matchOrder without acting on the conflicting
\* orders: only the skip inside the while loop keeps the user from self-trading
addOrderStpSkipped(conflictingOrders, ob, order) ==
    addOrderRest(matchOrder(ob, order, order.side), order)

\* addOrder step 1, given the conflicting orders wouldSelfTrade found
addOrderStp(conflictingOrders, ob, order) ==
    IF Len(conflictingOrders) > 0 /\ ob.stpMode = "CANCEL_NEWEST"
    THEN [ob |-> ob, status |-> "REJECTED", executedQty |-> 0, fills |-> <<>>,
          rejectionReason |-> "STP: Cancel Newest", cancelledOrders |-> <<>>]
    ELSE addOrderMatch(IF Len(conflictingOrders) > 0
                       THEN cancelConflicts(ob, conflictingOrders) ELSE ob,
                       conflictingOrders, order)

\* addOrder returns the AddOrderResult together with the book it leaves
addOrder(ob, order) == addOrderStp(wouldSelfTrade(ob, order), ob, order)

\* getDepth: entries with a positive aggregate, sorted for the API response
\* (bids descending, asks ascending); a level is <<price, qty>>
RECURSIVE sortLevels(_, _, _)
sortLevels(m, keys, side) ==
    IF keys = {} THEN <<>>
    ELSE LET first == CHOOSE p \in keys : \A q \in keys :
                        IF side = "buy" THEN ~isGreater(q, p) ELSE ~isLess(q, p)
         IN <<<<first, m[first]>>>> \o sortLevels(m, keys \ {first}, side)

getDepth(ob) ==
    [bids |-> sortLevels(ob.bidsDepth,
                 {p \in DOMAIN ob.bidsDepth : isGreater(ob.bidsDepth[p], 0)}, "buy"),
     asks |-> sortLevels(ob.asksDepth,
                 {p \in DOMAIN ob.asksDepth : isGreater(ob.asksDepth[p], 0)}, "sell")]

\* open orders taken from the asks only
getOpenOrdersOfAsks(ob, userId) == SelectSeq(ob.asks, LAMBDA x : x.userId = userId)

getOpenOrders(ob, userId) ==
    SelectSeq(ob.asks, LAMBDA x : x.userId = userId)
        \o SelectSeq(ob.bids, LAMBDA x : x.userId = userId)

(* ---------------- Engine: the balance ledger ---------------- *)

NoError == ""
TypeError == "TypeError"

Entry(a, l) == [available |-> a, locked |-> l]

\* setBaseBalances
setBaseBalances ==
    [u \in {"1", "2", "5"} |->
        [a \in {BASE_CURRENCY, "TATA"} |->
            IF a = BASE_CURRENCY THEN Entry(SeedINR, 0) ELSE Entry(SeedTATA, 0)]]

HasEntry(bal, userId, asset) == userId \in DOMAIN bal /\ asset \in DOMAIN bal[userId]

\* one statement  bal[user][asset].field = add(bal[user][asset].field, delta);
\* reading a field of an absent asset entry raises a TypeError and changes nothing
bump(r, userId, asset, field, delta) ==
    IF r.err # NoError THEN r
    ELSE IF ~HasEntry(r.bal, userId, asset) THEN [r EXCEPT !.err = TypeError]
    ELSE [r EXCEPT !.bal[userId][asset][field] = add(@, delta)]

\* a required amount that ignores the price of a buy
requiredFundsQuantityOnly(side, price, quantity) == quantity

\* the amount checkAndLockFunds requires
requiredFunds(side, price, quantity) ==
    IF side = "buy" THEN multiply(quantity, price) ELSE quantity

\* a lock that credits locked without debiting available
checkAndLockFundsKeepAvailable(bal, baseAsset, quoteAsset, side, userId, price, quantity) ==
    IF userId \notin DOMAIN bal THEN [bal |-> bal, err |-> "User not found"]
    ELSE LET asset == IF side = "buy" THEN quoteAsset ELSE baseAsset
             required == requiredFunds(side, price, quantity)
             available == IF asset \in DOMAIN bal[userId]
                          THEN bal[userId][asset].available ELSE 0
         IN IF isLess(available, required)
            THEN [bal |-> bal, err |-> "Insufficient funds"]
            ELSE bump([bal |-> bal, err |-> NoError], userId, asset, "locked", required)

checkAndLockFunds(bal, baseAsset, quoteAsset, side, userId, price, quantity) ==
    IF userId \notin DOMAIN bal THEN [bal |-> bal, err |-> "User not found"]
    ELSE LET asset == IF side = "buy" THEN quoteAsset ELSE baseAsset
             required == requiredFunds(side, price, quantity)
             available == IF asset \in DOMAIN bal[userId]
                          THEN bal[userId][asset].available ELSE 0
         IN IF isLess(available, required)
            THEN [bal |-> bal, err |-> "Insufficient funds"]
            ELSE bump(bump([bal |-> bal, err |-> NoError],
                           userId, asset, "available", subtract(0, required)),
                      userId, asset, "locked", required)

\* an unlock that releases the locked amount without returning it to available
unlockFundsLockedOnly(bal, baseAsset, quoteAsset, side, userId, price, quantity) ==
    IF userId \notin DOMAIN bal THEN [bal |-> bal, err |-> NoError]
    ELSE LET asset == IF side = "buy" THEN quoteAsset ELSE baseAsset
             amount == IF side = "buy" THEN multiply(quantity, price) ELSE quantity
         IN bump([bal |-> bal, err |-> NoError],
                 userId, asset, "locked", subtract(0, amount))

unlockFunds(bal, baseAsset, quoteAsset, side, userId, price, quantity) ==
    IF userId \notin DOMAIN bal THEN [bal |-> bal, err |-> NoError]
    ELSE LET asset == IF side = "buy" THEN quoteAsset ELSE baseAsset
             amount == IF side = "buy" THEN multiply(quantity, price) ELSE quantity
         IN bump(bump([bal |-> bal, err |-> NoError],
                      userId, asset, "locked", subtract(0, amount)),
                 userId, asset, "available", amount)

\* a settlement that takes the value of the fill, not its quantity, from the
\* base asset the selling taker has locked
settleFillValueFromBase(r, userId, baseAsset, quoteAsset, side, fill) ==
    LET fillValue == multiply(fill.qty, fill.price)
        maker == fill.otherUserId
        afterMaker ==
            IF maker \notin DOMAIN r.bal THEN r
            ELSE IF side = "buy"
            THEN bump(bump(r, maker, quoteAsset, "available", fillValue),
                      maker, baseAsset, "locked", subtract(0, fill.qty))
            ELSE bump(bump(r, maker, quoteAsset, "locked", subtract(0, fillValue)),
                      maker, baseAsset, "available", fill.qty)
    IN IF userId \notin DOMAIN r.bal THEN afterMaker
       ELSE IF side = "buy"
       THEN bump(bump(afterMaker, userId, quoteAsset, "locked", subtract(0, fillValue)),
                 userId, baseAsset, "available", fill.qty)
       ELSE bump(bump(afterMaker, userId, quoteAsset, "available", fillValue),
                 userId, baseAsset, "locked", subtract(0, fillValue))

\* the body of one forEach callback of updateBalance
settleFill(r, userId, baseAsset, quoteAsset, side, fill) ==
    LET fillValue == multiply(fill.qty, fill.price)
        maker == fill.otherUserId
        afterMaker ==
            IF maker \notin DOMAIN r.bal THEN r
            ELSE IF side = "buy"
            THEN bump(bump(r, maker, quoteAsset, "available", fillValue),
                      maker, baseAsset, "locked", subtract(0, fill.qty))
            ELSE bump(bump(r, maker, quoteAsset, "locked", subtract(0, fillValue)),
                      maker, baseAsset, "available", fill.qty)
    IN IF userId \notin DOMAIN r.bal THEN afterMaker
       ELSE IF side = "buy"
       THEN bump(bump(afterMaker, userId, quoteAsset, "locked", subtract(0, fillValue)),
                 userId, baseAsset, "available", fill.qty)
       ELSE bump(bump(afterMaker, userId, quoteAsset, "available", fillValue),
                 userId, baseAsset, "locked", subtract(0, fill.qty))

RECURSIVE updateBalanceLoop(_, _, _, _, _, _)
updateBalanceLoop(r, userId, baseAsset, quoteAsset, side, fills) ==
    IF fills = <<>> \/ r.err # NoError THEN r
    ELSE updateBalanceLoop(settleFill(r, userId, baseAsset, quoteAsset, side, Head(fills)),
                           userId, baseAsset, quoteAsset, side, Tail(fills))

updateBalance(bal, userId, baseAsset, quoteAsset, side, fills) ==
    updateBalanceLoop([bal |-> bal, err |-> NoError],
                      userId, baseAsset, quoteAsset, side, fills)

\* an on-ramp that overwrites the user's entry instead of adding to it
onRampOverwrites(bal, userId, amount) ==
    [u \in (DOMAIN bal) \cup {userId} |->
        IF u = userId THEN [a \in {BASE_CURRENCY} |-> Entry(amount, 0)] ELSE bal[u]]

onRamp(bal, userId, amount) ==
    IF userId \notin DOMAIN bal
    THEN [u \in (DOMAIN bal) \cup {userId} |->
            IF u = userId THEN [a \in {BASE_CURRENCY} |-> Entry(amount, 0)] ELSE bal[u]]
    ELSE LET withEntry ==
                IF BASE_CURRENCY \in DOMAIN bal[userId] THEN bal
                ELSE [bal EXCEPT ![userId] =
                        [a \in (DOMAIN bal[userId]) \cup {BASE_CURRENCY} |->
                            IF a = BASE_CURRENCY THEN Entry(0, 0) ELSE bal[userId][a]]]
         IN [withEntry EXCEPT ![userId][BASE_CURRENCY].available = add(@, amount)]

\* a withdrawal that does not compare available with the amount
withdrawUnchecked(bal, userId, amount) ==
    IF ~HasEntry(bal, userId, BASE_CURRENCY)
    THEN [bal |-> bal, err |-> "User not found", newBalance |-> 0]
    ELSE LET nb == subtract(bal[userId][BASE_CURRENCY].available, amount)
         IN [bal |-> [bal EXCEPT ![userId][BASE_CURRENCY].available = nb],
             err |-> NoError, newBalance |-> nb]

withdraw(bal, userId, amount) ==
    IF ~HasEntry(bal, userId, BASE_CURRENCY)
    THEN [bal |-> bal, err |-> "User not found", newBalance |-> 0]
    ELSE IF isLess(bal[userId][BASE_CURRENCY].available, amount)
    THEN [bal |-> bal, err |-> "Insufficient balance", newBalance |-> 0]
    ELSE LET nb == subtract(bal[userId][BASE_CURRENCY].available, amount)
         IN [bal |-> [bal EXCEPT ![userId][BASE_CURRENCY].available = nb],
             err |-> NoError, newBalance |-> nb]

(* ---------------- Engine: state ---------------- *)

VARIABLES
    orderbook,     \* Engine.orderbooks: the one Orderbook of the registry (TATA_INR)
    balances,      \* Engine.balances: user -> asset -> {available, locked}
    nextOrderId,   \* the next fresh orderId (Math.random ids never repeat)
    nCmds,         \* number of commands processed so far
    apiOut,        \* messages sendToApi published for the last command
    last,          \* the last command and what createOrder / addOrder made of it
    pre,           \* the book and the ledger as the last command found them
    onRamped,      \* total amount credited by ON_RAMP so far
    withdrawn,     \* total amount debited by WITHDRAW so far
    validOrders,   \* every CREATE_ORDER so far had a positive price and quantity
    depthOut,      \* data of the depth@<market> messages published for the last command
    dbOut,         \* messages pushed to the db_processor queue for the last command
    wsOut,         \* trade@ and userTrades@ messages published for the last command
    snapshotFile,  \* ./snapshot.json: absent, a complete snapshot, or a partial write
    running,       \* the engine process is up
    pending        \* the CREATE_ORDER whose createOrder call is on the stack, if any

vars == <<orderbook, balances, nextOrderId, nCmds, apiOut, last, pre, onRamped, withdrawn,
          validOrders,
          depthOut, dbOut, wsOut, snapshotFile, running, pending>>

\* the states of ./snapshot.json
NoFile == [kind |-> "absent"]
PartialFile == [kind |-> "partial"]
CompleteFile(books, bal) == [kind |-> "complete", orderbooks |-> books, balances |-> bal]

\* no createOrder call is in progress
NoPending == [stage |-> "idle"]

NoCmd ==
    [type |-> "NONE", market |-> "", userId |-> "", side |-> "", price |-> 0,
     quantity |-> 0, orderId |-> 0, amount |-> 0,
     addStatus |-> "NONE", fills |-> <<>>, executedQty |-> 0, err |-> NoError,
     cancelledOrders |-> <<>>, txnId |-> ""]

\* Engine constructor without a snapshot
EngineInit(mode) ==
    /\ orderbook = NewOrderbook("TATA", <<>>, <<>>, 0, 0, mode)
    /\ balances = setBaseBalances
    /\ nextOrderId = 1
    /\ nCmds = 0
    /\ apiOut = <<>>
    /\ last = NoCmd
    /\ pre = [ob |-> orderbook, bal |-> balances]
    /\ onRamped = 0
    /\ withdrawn = 0
    /\ validOrders = TRUE
    /\ depthOut = <<>>
    /\ dbOut = <<>>
    /\ wsOut = <<>>
    /\ snapshotFile = NoFile
    /\ running = TRUE
    /\ pending = NoPending

Init == EngineInit("CANCEL_NEWEST")

\* an engine whose TATA book was constructed with any of the three STP modes
InitStp == \E mode \in StpModes : EngineInit(mode)

(* ---------------- Engine: createOrder ---------------- *)

\* what createOrder leaves when it throws error e: book o, ledger b, and the
\* status st of addOrder when it was reached ("NONE" otherwise)
orderFailed(b, o, e, st) ==
    [ob |-> o, bal |-> b, err |-> e, executedQty |-> 0, fills |-> <<>>,
     orderId |-> 0, addStatus |-> st, idUsed |-> (st # "NONE"),
     cancelledOrders |-> <<>>]

\* what createOrder leaves when addOrder rejected the order: the funds are
\* unlocked (ledger b) and the rejection reason is thrown
orderRejected(b, result) ==
    [ob |-> result.ob, bal |-> b, err |-> result.rejectionReason, executedQty |-> 0,
     fills |-> <<>>, orderId |-> 0, addStatus |-> "REJECTED", idUsed |-> TRUE,
     cancelledOrders |-> result.cancelledOrders]

\* createOrder after updateBalance returned (or threw) settled
createOrderSettled(settled, result, newId) ==
    [ob |-> result.ob, bal |-> settled.bal, err |-> settled.err,
     executedQty |-> result.executedQty, fills |-> result.fills,
     orderId |-> newId, addStatus |-> result.status, idUsed |-> TRUE,
     cancelledOrders |-> result.cancelledOrders]

\* createOrder after addOrder returned result; lockedBal is the ledger after the lock
createOrderAdded(result, lockedBal, market, price, quantity, side, userId, newId) ==
    IF result.status = "REJECTED"
    THEN orderRejected(unlockFunds(lockedBal, baseOf(market), quoteOf(market), side,
                                   userId, price, quantity).bal,
                       result)
    ELSE createOrderSettled(updateBalance(lockedBal, userId, baseOf(market),
                                          quoteOf(market), side, result.fills),
                            result, newId)

\* createOrder after checkAndLockFunds returned (or threw) locked
createOrderLocked(locked, ob, bal, market, price, quantity, side, userId, newId) ==
    IF locked.err # NoError THEN orderFailed(bal, ob, locked.err, "NONE")
    ELSE createOrderAdded(
            addOrder(ob, [price |-> price, quantity |-> quantity, orderId |-> newId,
                          filled |-> 0, side |-> side, userId |-> userId]),
            locked.bal, market, price, quantity, side, userId, newId)

\* Engine.createOrder: the book and ledger it leaves, the error it throws
\* (NoError when it returns) and the result of addOrder when it was reached
createOrder(ob, bal, market, price, quantity, side, userId, newId) ==
    IF ticker(ob) # market THEN orderFailed(bal, ob, "No orderbook found", "NONE")
    ELSE createOrderLocked(
            checkAndLockFunds(bal, baseOf(market), quoteOf(market), side, userId,
                              price, quantity),
            ob, bal, market, price, quantity, side, userId, newId)

\* the fills as they appear in the ORDER_PLACED payload
\* (the fill objects of addOrder are sent as they are)
placedFills(fills) == fills

(* ---------------- Engine.process ---------------- *)

\* errorMessage.includes("SELF_TRADE_PREVENTION") over the messages that occur
includesSelfTradeTag(errorMessage) == errorMessage \in {"SELF_TRADE_PREVENTION"}

\* filter of getDepth levels by price, as x => x[0] === price
levelsAt(levels, price) == SelectSeq(levels, LAMBDA x : x[1] = price)

\* publisWsDepthUpdates: the data of the depth message of a placed order
publisWsDepthUpdates(ob, fills, price, side) ==
    LET depth == getDepth(ob)
        fillPrices == {fills[k].price : k \in 1..Len(fills)}
    IN IF side = "buy"
       THEN [a |-> SelectSeq(depth.asks, LAMBDA x : x[1] \in fillPrices),
             b |-> IF levelsAt(depth.bids, price) # <<>>
                   THEN <<Head(levelsAt(depth.bids, price))>> ELSE <<>>]
       ELSE [a |-> IF levelsAt(depth.asks, price) # <<>>
                   THEN <<Head(levelsAt(depth.asks, price))>> ELSE <<>>,
             b |-> SelectSeq(depth.bids, LAMBDA x : x[1] \in fillPrices)]

\* sendUpdatedDepthAt: the data of the depth message after a cancel
sendUpdatedDepthAt(ob, price) ==
    LET depth == getDepth(ob)
    IN [a |-> IF levelsAt(depth.asks, price) # <<>>
              THEN levelsAt(depth.asks, price) ELSE <<<<price, 0>>>>,
        b |-> IF levelsAt(depth.bids, price) # <<>>
              THEN levelsAt(depth.bids, price) ELSE <<<<price, 0>>>>]

\* the maker flag taken from the wrong side
isBuyerMakerOfBuy(side) == side = "buy"

\* side === "sell": the buyer is the maker when the taker sells
isBuyerMaker(side) == side = "sell"

\* createDbTrades: one TRADE_ADDED per fill on the db_processor queue
\* (the timestamp, Date.now(), is left out)
createDbTrades(fills, market, side) ==
    [k \in 1..Len(fills) |->
        [type |-> "TRADE_ADDED",
         data |-> [market |-> market,
                   id |-> ToString(fills[k].tradeId),
                   isBuyerMaker |-> isBuyerMaker(side),
                   price |-> fills[k].price,
                   quantity |-> fills[k].qty,
                   quoteQuantity |-> multiply(fills[k].qty, fills[k].price)]]]

\* the ORDER_UPDATE of a maker order: the quantity of the one fill
makerUpdate(fill) ==
    [type |-> "ORDER_UPDATE",
     data |-> [orderId |-> fill.markerOrderId, executedQty |-> fill.qty]]

\* updateDbOrders: one ORDER_UPDATE for the taker, then one per fill for the maker
updateDbOrders(orderId, price, quantity, side, executedQty, fills, market) ==
    << [type |-> "ORDER_UPDATE",
        data |-> [orderId |-> orderId, executedQty |-> executedQty,
                  market |-> market, price |-> price, quantity |-> quantity,
                  side |-> side]] >>
      \o [k \in 1..Len(fills) |-> makerUpdate(fills[k])]

\* publishWsTrades: one trade@<market> message per fill
publishWsTrades(fills, market, side) ==
    [k \in 1..Len(fills) |->
        [stream |-> "trade@" \o market,
         data |-> [e |-> "trade", t |-> fills[k].tradeId, m |-> isBuyerMaker(side),
                   p |-> fills[k].price, q |-> fills[k].qty, s |-> market]]]

\* the userTrade message of one fill for one of its two parties
userTrade(fill, userId, market, side, role) ==
    [stream |-> "userTrades@" \o userId,
     data |-> [e |-> "userTrade", t |-> fill.tradeId, s |-> market,
               p |-> fill.price, q |-> fill.qty, side |-> side, role |-> role]]

\* publishUserTrades: per fill one message for the taker, then one for the maker
RECURSIVE publishUserTrades(_, _, _, _)
publishUserTrades(fills, userId, market, side) ==
    IF fills = <<>> THEN <<>>
    ELSE << userTrade(Head(fills), userId, market, side, "taker"),
            userTrade(Head(fills), Head(fills).otherUserId, market,
                      IF side = "buy" THEN "sell" ELSE "buy", "maker") >>
           \o publishUserTrades(Tail(fills), userId, market, side)

\* one command is taken from the queue by the running engine while no other
\* command is being processed; it touches neither the snapshot file nor the process
Tick == /\ running
        /\ pending = NoPending
        /\ nCmds < MaxCmds
        /\ nCmds' = nCmds + 1
        /\ pre' = [ob |-> orderbook, bal |-> balances]
        /\ UNCHANGED <<snapshotFile, running, pending>>

\* the CREATE_ORDER case once createOrder returned (or threw) r
PublishCreateOrder(r, market, price, quantity, side, userId) ==
    /\ orderbook' = r.ob
    /\ balances' = r.bal
    /\ nextOrderId' = IF r.idUsed THEN nextOrderId + 1 ELSE nextOrderId
    /\ last' = [NoCmd EXCEPT !.type = "CREATE_ORDER", !.market = market,
                             !.userId = userId, !.side = side, !.price = price,
                             !.quantity = quantity, !.orderId = r.orderId,
                             !.addStatus = r.addStatus, !.fills = r.fills,
                             !.executedQty = r.executedQty, !.err = r.err,
                             !.cancelledOrders = r.cancelledOrders]
    /\ apiOut' = IF r.err = NoError
                 THEN << [type |-> "ORDER_PLACED",
                          payload |-> [orderId |-> r.orderId,
                                       executedQty |-> r.executedQty,
                                       fills |-> placedFills(r.fills)]] >>
                 ELSE << [type |-> "ORDER_REJECTED",
                          payload |-> [orderId |-> 0, executedQty |-> 0,
                                       remainingQty |-> 0, reason |-> r.err,
                                       code |-> IF includesSelfTradeTag(r.err)
                                                THEN "SELF_TRADE"
                                                ELSE "ORDER_FAILED"]] >>
    /\ depthOut' = IF r.err = NoError
                   THEN <<publisWsDepthUpdates(r.ob, r.fills, price, side)>>
                   ELSE <<>>
    /\ dbOut' = IF r.err = NoError
                THEN createDbTrades(r.fills, market, side)
                       \o updateDbOrders(r.orderId, price, quantity, side,
                                         r.executedQty, r.fills, market)
                ELSE <<>>
    /\ wsOut' = IF r.err = NoError
                THEN publishWsTrades(r.fills, market, side)
                       \o publishUserTrades(r.fills, userId, market, side)
                ELSE <<>>
    /\ validOrders' = (validOrders /\ price > 0 /\ quantity > 0)
    /\ UNCHANGED <<onRamped, withdrawn>>

ReplyCreateOrder(r, market, price, quantity, side, userId) ==
    Tick /\ PublishCreateOrder(r, market, price, quantity, side, userId)

ProcessCreateOrder(market, price, quantity, side, userId) ==
    ReplyCreateOrder(createOrder(orderbook, balances, market, price, quantity, side,
                                 userId, nextOrderId),
                     market, price, quantity, side, userId)

\* for a market that is not in the registry the handlers throw before they
\* read any other argument, so one representative command per type is enough
OneForUnknown(market, isFirst) == market = "TATA_INR" \/ isFirst

CreateOrder ==
    \E market \in Markets, price \in Prices, quantity \in Quantities,
       side \in Sides, userId \in CmdUsers :
        /\ OneForUnknown(market, price = 1 /\ quantity = 1 /\ side = "buy" /\ userId = "1")
        /\ ProcessCreateOrder(market, price, quantity, side, userId)

\* asks.find(...) || bids.find(...)
findOrder(ob, orderId) ==
    IF FindIndex(ob.asks, orderId) # 0 THEN <<ob.asks[FindIndex(ob.asks, orderId)]>>
    ELSE IF FindIndex(ob.bids, orderId) # 0 THEN <<ob.bids[FindIndex(ob.bids, orderId)]>>
    ELSE <<>>

\* a refund of the whole order, filled part included
cancelRefundWholeOrder(bal, order, baseAsset, quoteAsset) ==
    LET asset == IF order.side = "buy" THEN quoteAsset ELSE baseAsset
        leftQuantity == IF order.side = "buy" THEN multiply(order.quantity, order.price)
                        ELSE order.quantity
    IN IF HasEntry(bal, order.userId, asset)
       THEN [bal EXCEPT ![order.userId][asset] =
                Entry(add(@.available, leftQuantity), subtract(@.locked, leftQuantity))]
       ELSE bal

\* the balance update of the CANCEL_ORDER case for the order found
cancelRefund(bal, order, baseAsset, quoteAsset) ==
    LET asset == IF order.side = "buy" THEN quoteAsset ELSE baseAsset
        leftQuantity == IF order.side = "buy"
                        THEN multiply(subtract(order.quantity, order.filled), order.price)
                        ELSE subtract(order.quantity, order.filled)
    IN IF HasEntry(bal, order.userId, asset)
       THEN [bal EXCEPT ![order.userId][asset] =
                Entry(add(@.available, leftQuantity), subtract(@.locked, leftQuantity))]
       ELSE bal

ProcessCancelOrder(orderId, market) ==
    LET found == IF ticker(orderbook) = market THEN findOrder(orderbook, orderId) ELSE <<>>
        err == IF ticker(orderbook) # market THEN "No orderbook found"
               ELSE IF found = <<>> THEN "No order found" ELSE NoError
    IN /\ Tick
       /\ last' = [NoCmd EXCEPT !.type = "CANCEL_ORDER", !.market = market,
                                !.orderId = orderId, !.err = err]
       /\ IF err # NoError
          THEN /\ apiOut' = <<>>
               /\ depthOut' = <<>>
               /\ dbOut' = <<>>
               /\ wsOut' = <<>>
               /\ UNCHANGED <<orderbook, balances>>
          ELSE LET order == found[1]
               IN /\ orderbook' = IF order.side = "buy" THEN cancelBid(orderbook, order)
                                                        ELSE cancelAsk(orderbook, order)
                  /\ balances' = cancelRefund(balances, order, baseOf(market),
                                              quoteOf(market))
                  /\ depthOut' = <<sendUpdatedDepthAt(orderbook', order.price)>>
                  /\ dbOut' = <<>>
                  /\ wsOut' = <<>>
                  /\ apiOut' = << [type |-> "ORDER_CANCELLED",
                                   payload |-> [orderId |-> orderId, executedQty |-> 0,
                                                remainingQty |-> 0]] >>
       /\ UNCHANGED <<nextOrderId, onRamped, withdrawn, validOrders>>

CancelOrder ==
    \E orderId \in 1..nextOrderId, market \in Markets :
        /\ OneForUnknown(market, orderId = 1)
        /\ ProcessCancelOrder(orderId, market)

ProcessGetOpenOrders(market, userId) ==
    /\ Tick
    /\ last' = [NoCmd EXCEPT !.type = "GET_OPEN_ORDERS", !.market = market,
                             !.userId = userId,
                             !.err = IF ticker(orderbook) = market THEN NoError
                                     ELSE "No orderbook found"]
    /\ apiOut' = IF ticker(orderbook) = market
                 THEN << [type |-> "OPEN_ORDERS",
                          payload |-> getOpenOrders(orderbook, userId)] >>
                 ELSE <<>>
    /\ depthOut' = <<>>
    /\ dbOut' = <<>>
    /\ wsOut' = <<>>
    /\ UNCHANGED <<orderbook, balances, nextOrderId, onRamped, withdrawn, validOrders>>

GetOpenOrders ==
    \E market \in Markets, userId \in LedgerUsers :
        /\ OneForUnknown(market, userId = "1")
        /\ ProcessGetOpenOrders(market, userId)

ProcessOnRamp(userId, amount) ==
    /\ Tick
    /\ balances' = onRamp(balances, userId, amount)
    /\ onRamped' = onRamped + amount
    /\ last' = [NoCmd EXCEPT !.type = "ON_RAMP", !.userId = userId, !.amount = amount]
    /\ apiOut' = << [type |-> "ON_RAMP_SUCCESS",
                     payload |-> [userId |-> userId, amount |-> amount,
                                  newBalance |->
                                     balances'[userId][BASE_CURRENCY].available]] >>
    /\ depthOut' = <<>>
    /\ dbOut' = <<>>
    /\ wsOut' = <<>>
    /\ UNCHANGED <<orderbook, nextOrderId, withdrawn, validOrders>>

OnRamp == \E userId \in LedgerUsers, amount \in Amounts : ProcessOnRamp(userId, amount)

ProcessWithdraw(userId, amount, txnId) ==
    LET r == withdraw(balances, userId, amount)
    IN /\ Tick
       /\ balances' = r.bal
       /\ withdrawn' = IF r.err = NoError THEN withdrawn + amount ELSE withdrawn
       /\ last' = [NoCmd EXCEPT !.type = "WITHDRAW", !.userId = userId,
                                !.amount = amount, !.err = r.err,
                                !.txnId = txnId]
       /\ apiOut' = IF r.err = NoError
                    THEN << [type |-> "WITHDRAW_SUCCESS",
                             payload |-> [userId |-> userId, amount |-> amount,
                                          newBalance |-> r.newBalance,
                                          txnId |-> txnId]] >>
                    ELSE << [type |-> "WITHDRAW_FAILED", payload |-> [error |-> r.err]] >>
       /\ depthOut' = <<>>
       /\ dbOut' = <<>>
       /\ wsOut' = <<>>
       /\ UNCHANGED <<orderbook, nextOrderId, onRamped, validOrders>>

Withdraw ==
    \E userId \in LedgerUsers, amount \in Amounts, txnId \in TxnIds :
        ProcessWithdraw(userId, amount, txnId)

ProcessGetDepth(market) ==
    /\ Tick
    /\ last' = [NoCmd EXCEPT !.type = "GET_DEPTH", !.market = market,
                             !.err = IF ticker(orderbook) = market THEN NoError
                                     ELSE "No orderbook found"]
    /\ apiOut' = << [type |-> "DEPTH",
                     payload |-> IF ticker(orderbook) = market THEN getDepth(orderbook)
                                 ELSE [bids |-> <<>>, asks |-> <<>>]] >>
    /\ depthOut' = <<>>
    /\ dbOut' = <<>>
    /\ wsOut' = <<>>
    /\ UNCHANGED <<orderbook, balances, nextOrderId, onRamped, withdrawn, validOrders>>

GetDepth == \E market \in Markets : ProcessGetDepth(market)

ProcessGetBalance(userId) ==
    /\ Tick
    /\ last' = [NoCmd EXCEPT !.type = "GET_BALANCE", !.userId = userId]
    /\ apiOut' = << [type |-> "BALANCE",
                     payload |-> IF userId \in DOMAIN balances THEN balances[userId]
                                 ELSE EmptyMap] >>
    /\ depthOut' = <<>>
    /\ dbOut' = <<>>
    /\ wsOut' = <<>>
    /\ UNCHANGED <<orderbook, balances, nextOrderId, onRamped, withdrawn, validOrders>>

GetBalance == \E userId \in LedgerUsers : ProcessGetBalance(userId)

Next ==
    \/ CreateOrder
    \/ CancelOrder
    \/ GetOpenOrders
    \/ OnRamp
    \/ Withdraw
    \/ GetDepth
    \/ GetBalance

Spec == Init /\ [][Next]_vars

\* getSnapshot: what saveSnapshot writes for a book
getSnapshot(ob) ==
    [baseAsset |-> ob.baseAsset, bids |-> ob.bids, asks |-> ob.asks,
     lastTradeId |-> ob.lastTradeId, currentPrice |-> ob.currentPrice]

\* the Engine constructor on a snapshot: each book is rebuilt by the Orderbook
\* constructor (with its default stpMode), the ledger is read back as written
restoreBook(snap) ==
    NewOrderbook(snap.baseAsset, snap.bids, snap.asks, snap.lastTradeId,
                 snap.currentPrice, "CANCEL_NEWEST")

\* saveSnapshot on a timer tick followed by a restart of the engine process
\* with WITH_SNAPSHOT set, before any further command
RestartFromSnapshot ==
    /\ running
    /\ pending = NoPending
    /\ nCmds < MaxCmds
    /\ nCmds' = nCmds + 1
    /\ pre' = [ob |-> orderbook, bal |-> balances]
    /\ snapshotFile' = CompleteFile(<<getSnapshot(orderbook)>>, balances)
    /\ orderbook' = restoreBook(snapshotFile'.orderbooks[1])
    /\ balances' = snapshotFile'.balances
    /\ last' = [NoCmd EXCEPT !.type = "RESTART"]
    /\ apiOut' = <<>>
    /\ depthOut' = <<>>
    /\ dbOut' = <<>>
    /\ wsOut' = <<>>
    /\ UNCHANGED <<nextOrderId, onRamped, withdrawn, validOrders, running, pending>>

NextStp == Next \/ RestartFromSnapshot

\* books of every STP mode, rebuilt by the constructor at restarts
SpecStp == InitStp /\ [][NextStp]_vars

(* ---------------- the snapshot timer, stops and starts of the process ---------------- *)

\* a callback of setInterval runs only when no call of Engine.process is on
\* the stack: process and everything it calls are synchronous
timerMayFireAnytime(p) == TRUE

timerMayFire(p) == p = NoPending

\* createOrder up to and including a successful checkAndLockFunds
BeginCreateOrder ==
    \E price \in Prices, quantity \in Quantities, side \in Sides, userId \in CmdUsers :
        LET locked == checkAndLockFunds(balances, "TATA", "INR", side, userId,
                                        price, quantity)
        IN /\ running
           /\ pending = NoPending
           /\ nCmds < MaxCmds
           /\ ticker(orderbook) = "TATA_INR"
           /\ locked.err = NoError
           /\ nCmds' = nCmds + 1
           /\ pre' = [ob |-> orderbook, bal |-> balances]
           /\ balances' = locked.bal
           /\ pending' = [stage |-> "locked", price |-> price, quantity |-> quantity,
                          side |-> side, userId |-> userId]
           /\ UNCHANGED <<orderbook, nextOrderId, apiOut, last, onRamped, withdrawn, validOrders,
                          depthOut, dbOut, wsOut, snapshotFile, running>>

\* the rest of createOrder (addOrder, unlock or settlement) and the reply
FinishCreateOrder ==
    /\ running
    /\ pending # NoPending
    /\ PublishCreateOrder(
            createOrderAdded(
                addOrder(orderbook,
                         [price |-> pending.price, quantity |-> pending.quantity,
                          orderId |-> nextOrderId, filled |-> 0,
                          side |-> pending.side, userId |-> pending.userId]),
                balances, "TATA_INR", pending.price, pending.quantity, pending.side,
                pending.userId, nextOrderId),
            "TATA_INR", pending.price, pending.quantity, pending.side, pending.userId)
    /\ pending' = NoPending
    /\ UNCHANGED <<nCmds, pre, snapshotFile, running>>

\* the timer tick: saveSnapshot writes the whole file
SaveSnapshot ==
    /\ running
    /\ timerMayFire(pending)
    /\ snapshotFile' = CompleteFile(<<getSnapshot(orderbook)>>, balances)
    /\ last' = [NoCmd EXCEPT !.type = "SNAPSHOT"]
    /\ UNCHANGED <<orderbook, balances, nextOrderId, nCmds, apiOut, pre, onRamped,
                   withdrawn, validOrders, depthOut, dbOut, wsOut, running, pending>>

\* the timer tick when writeFileSync raises an error (before or after the file
\* was truncated): nothing catches it in saveSnapshot or in the timer callback,
\* and the uncaught exception ends the process
SaveSnapshotFails ==
    /\ running
    /\ timerMayFire(pending)
    /\ snapshotFile' \in {snapshotFile, PartialFile}
    /\ running' = FALSE
    /\ last' = [NoCmd EXCEPT !.type = "SNAPSHOT_FAILED"]
    /\ UNCHANGED <<orderbook, balances, nextOrderId, nCmds, apiOut, pre, onRamped,
                   withdrawn, validOrders, depthOut, dbOut, wsOut, pending>>

\* the process stops while writeFileSync is writing ./snapshot.json in place
StopDuringSave ==
    /\ running
    /\ timerMayFire(pending)
    /\ snapshotFile' = PartialFile
    /\ running' = FALSE
    /\ last' = [NoCmd EXCEPT !.type = "STOPPED"]
    /\ UNCHANGED <<orderbook, balances, nextOrderId, nCmds, apiOut, pre, onRamped,
                   withdrawn, validOrders, depthOut, dbOut, wsOut, pending>>

\* the process stops at any other moment, a command in progress included
Stop ==
    /\ running
    /\ running' = FALSE
    /\ pending' = NoPending
    /\ last' = [NoCmd EXCEPT !.type = "STOPPED"]
    /\ UNCHANGED <<orderbook, balances, nextOrderId, nCmds, apiOut, pre, onRamped,
                   withdrawn, validOrders, depthOut, dbOut, wsOut, snapshotFile>>

\* the Engine constructor with WITH_SNAPSHOT set: an absent file is caught and
\* the engine starts empty, a complete file is restored, and on a partial file
\* JSON.parse throws out of the constructor
Start ==
    /\ ~running
    /\ IF snapshotFile = PartialFile
       THEN /\ last' = [NoCmd EXCEPT !.type = "START_FAILED"]
            /\ UNCHANGED <<orderbook, balances, running>>
       ELSE /\ last' = [NoCmd EXCEPT !.type = "START"]
            /\ running' = TRUE
            /\ IF snapshotFile = NoFile
               THEN /\ orderbook' = NewOrderbook("TATA", <<>>, <<>>, 0, 0, "CANCEL_NEWEST")
                    /\ balances' = setBaseBalances
               ELSE /\ orderbook' = restoreBook(snapshotFile.orderbooks[1])
                    /\ balances' = snapshotFile.balances
    /\ apiOut' = <<>>
    /\ depthOut' = <<>>
    /\ dbOut' = <<>>
    /\ wsOut' = <<>>
    /\ UNCHANGED <<nextOrderId, nCmds, pre, onRamped, withdrawn, validOrders, snapshotFile, pending>>

NextSnap ==
    \/ BeginCreateOrder
    \/ FinishCreateOrder
    \/ CancelOrder
    \/ OnRamp
    \/ SaveSnapshot
    \/ SaveSnapshotFails
    \/ StopDuringSave
    \/ Stop
    \/ Start

\* the engine with its snapshot timer, stopped and started again
SpecSnap == Init /\ [][NextSnap]_vars

(* ================= properties ================= *)

\* a balance component, 0 when the user or the asset entry is absent
Comp(bal, userId, asset, field) ==
    IF HasEntry(bal, userId, asset) THEN bal[userId][asset][field] ELSE 0

RECURSIVE SumOver(_, _, _)
SumOver(bal, users, asset) ==
    IF users = {} THEN 0
    ELSE LET u == CHOOSE x \in users : TRUE
         IN Comp(bal, u, asset, "available") + Comp(bal, u, asset, "locked")
            + SumOver(bal, users \ {u}, asset)

\* the sum over all users of the ledger of available + locked of one asset
TotalOf(bal, asset) == SumOver(bal, DOMAIN bal, asset)

Assets == {"INR", "TATA"}
AllUsers == {"1", "2", "5", "7"}
Fields == {"available", "locked"}

IsCreate == last.type = "CREATE_ORDER"
\* the last command was a CREATE_ORDER whose order reached addOrder
ReachedBook == IsCreate /\ last.addStatus # "NONE"
HasFills == IsCreate /\ Len(last.fills) > 0

\* the opposite side of the book as the last command found it
PreOpposite == IF last.side = "buy" THEN pre.ob.asks ELSE pre.ob.bids

\* the maker order of a fill, as it rested before the command
MakerOf(fill) ==
    PreOpposite[CHOOSE i \in 1..Len(PreOpposite) : PreOpposite[i].orderId = fill.markerOrderId]

\* C1: for each asset the sum over all users of available + locked equals the
\* initial total plus the amounts on-ramped minus the amounts withdrawn
C1_AssetConservation ==
    /\ TotalOf(balances, "INR") = TotalOf(setBaseBalances, "INR") + onRamped - withdrawn
    /\ TotalOf(balances, "TATA") = TotalOf(setBaseBalances, "TATA")

\* C2: a CREATE_ORDER answered with ORDER_REJECTED leaves the bids, asks, depth
\* maps and trade-id counter of the book and every balance as they were
C2_RejectedOrderChangesNothing ==
    (IsCreate /\ Len(apiOut) = 1 /\ apiOut[1].type = "ORDER_REJECTED")
        => /\ orderbook.bids = pre.ob.bids
           /\ orderbook.asks = pre.ob.asks
           /\ orderbook.bidsDepth = pre.ob.bidsDepth
           /\ orderbook.asksDepth = pre.ob.asksDepth
           /\ orderbook.lastTradeId = pre.ob.lastTradeId
           /\ balances = pre.bal

\* C3: after each command every available and locked component is >= 0
C3_BalancesNonNegative ==
    \A u \in DOMAIN balances : \A a \in DOMAIN balances[u] :
        balances[u][a].available >= 0 /\ balances[u][a].locked >= 0

\* C4: every command handed to Engine.process publishes exactly one message
\* on the requesting client's channel
C4_ExactlyOneResult ==
    (last.type \in {"CREATE_ORDER", "CANCEL_ORDER", "GET_OPEN_ORDERS", "GET_DEPTH",
                    "GET_BALANCE", "ON_RAMP", "WITHDRAW"})
        => Len(apiOut) = 1

\* the opposite side as matchOrder finds it: the side before the command without
\* the taker's own crossing orders, which the STP step removes before matching
OppositeAtMatch ==
    SelectSeq(PreOpposite,
              LAMBDA o : ~(o.userId = last.userId
                           /\ pricesCross(last.side, o.price, last.price)))

\* o has priority over m: a strictly better price, or the same price and an
\* earlier insertion (order ids are handed out in the order of creation)
HasPriority(o, m) ==
    \/ IF last.side = "buy" THEN o.price < m.price ELSE o.price > m.price
    \/ o.price = m.price /\ o.orderId < m.orderId

\* C5: the makers filled are a prefix of the opposite side in book order, no
\* resting order with priority over a filled maker is skipped, only the last
\* maker may stay partially filled, and the fill prices are monotonic
C5_PriceTimePriority ==
    HasFills =>
        LET fills == last.fills
            n == Len(fills)
            opp == OppositeAtMatch
        IN /\ n <= Len(opp)
           /\ \A k \in 1..n :
                /\ fills[k].markerOrderId = opp[k].orderId
                /\ \A j \in 1..Len(opp) :
                     HasPriority(opp[j], opp[k])
                        => \E i \in 1..(k - 1) : fills[i].markerOrderId = opp[j].orderId
                /\ k < n => fills[k].qty = opp[k].quantity - opp[k].filled
                /\ k < n => IF last.side = "buy"
                            THEN fills[k].price <= fills[k + 1].price
                            ELSE fills[k].price >= fills[k + 1].price

\* a taker was filled by two makers resting at the same price, one after the other
C5_Witness ==
    /\ HasFills
    /\ Len(last.fills) >= 2
    /\ \E k \in 1..(Len(last.fills) - 1) : last.fills[k].price = last.fills[k + 1].price

\* C6: whenever both sides are non-empty the best bid is strictly below the best ask
C6_NoCrossing ==
    (Len(orderbook.bids) > 0 /\ Len(orderbook.asks) > 0)
        => orderbook.bids[1].price < orderbook.asks[1].price

\* a taker was partly filled and its residue rests opposite a remaining order
C6_Witness ==
    /\ HasFills
    /\ last.addStatus = "PARTIALLY_FILLED"
    /\ Len(orderbook.bids) > 0 /\ Len(orderbook.asks) > 0

\* C7: every fill is priced at the maker's price and its quantity is the
\* minimum of what the taker and the maker had left at the time of the fill
C7_FillAtMakerPrice ==
    HasFills =>
        \A k \in 1..Len(last.fills) :
            LET fill == last.fills[k]
                maker == MakerOf(fill)
                takerLeft == last.quantity
                             - SumSeq([i \in 1..(k - 1) |-> last.fills[i].qty])
                makerLeft == maker.quantity - maker.filled
            IN /\ \E i \in 1..Len(PreOpposite) : PreOpposite[i].orderId = fill.markerOrderId
               /\ fill.price = maker.price
               /\ fill.qty = (IF takerLeft < makerLeft THEN takerLeft ELSE makerLeft)

\* a fill whose taker offered a strictly better price than the maker asked
C7_Witness ==
    /\ HasFills
    /\ \E k \in 1..Len(last.fills) : last.fills[k].price # last.price

\* what a fill adds to one balance component of one user (section 4.3 settle_fill)
FillDelta(fill, takerSide, taker, u, a, f) ==
    LET value == fill.qty * fill.price
        maker == fill.otherUserId
        t == IF u # taker THEN 0
             ELSE IF takerSide = "buy"
             THEN (IF a = "INR" /\ f = "locked" THEN 0 - value
                   ELSE IF a = "TATA" /\ f = "available" THEN fill.qty ELSE 0)
             ELSE (IF a = "TATA" /\ f = "locked" THEN 0 - fill.qty
                   ELSE IF a = "INR" /\ f = "available" THEN value ELSE 0)
        m == IF u # maker THEN 0
             ELSE IF takerSide = "buy"
             THEN (IF a = "INR" /\ f = "available" THEN value
                   ELSE IF a = "TATA" /\ f = "locked" THEN 0 - fill.qty ELSE 0)
             ELSE (IF a = "INR" /\ f = "locked" THEN 0 - value
                   ELSE IF a = "TATA" /\ f = "available" THEN fill.qty ELSE 0)
    IN t + m

\* what locking the funds of the last order adds to one balance component
LockDelta(u, a, f) ==
    LET required == IF last.side = "buy" THEN last.quantity * last.price
                    ELSE last.quantity
        asset == IF last.side = "buy" THEN "INR" ELSE "TATA"
    IN IF u = last.userId /\ a = asset
       THEN (IF f = "locked" THEN required ELSE 0 - required)
       ELSE 0

\* C8: the fills of a command change the balances by exactly the settlement of
\* each fill (after the lock of the taker's funds), and nothing else
C8_SettlementPerFill ==
    HasFills =>
        \A u \in AllUsers, a \in Assets, f \in Fields :
            Comp(balances, u, a, f)
                = Comp(pre.bal, u, a, f) + LockDelta(u, a, f)
                  + SumSeq([k \in 1..Len(last.fills) |->
                              FillDelta(last.fills[k], last.side, last.userId, u, a, f)])

RemainingAt(orders, p) ==
    SumSeq([i \in 1..Len(orders) |->
              IF orders[i].price = p THEN orders[i].quantity - orders[i].filled ELSE 0])

PricesOf(orders, m) == {orders[i].price : i \in 1..Len(orders)} \cup DOMAIN m

DepthAgrees(orders, m) ==
    \A p \in PricesOf(orders, m) :
        /\ DepthGet(m, p) = RemainingAt(orders, p)
        /\ (p \in DOMAIN m) <=> (RemainingAt(orders, p) > 0)

\* C9: for every price the cached depth equals the sum of quantity - filled
\* over the resting orders at that price, and a key exists iff that sum is > 0
C9_DepthAgreement ==
    /\ DepthAgrees(orderbook.bids, orderbook.bidsDepth)
    /\ DepthAgrees(orderbook.asks, orderbook.asksDepth)

\* a level that holds two orders, one of them partly filled by the last command
C9_Witness ==
    /\ HasFills
    /\ \E i, j \in 1..Len(orderbook.asks) :
         /\ i # j
         /\ orderbook.asks[i].price = orderbook.asks[j].price
         /\ orderbook.asks[i].filled > 0

\* the taker of the last command owned a resting opposite order at a crossing price
OwnCrossing ==
    \E i \in 1..Len(PreOpposite) :
        /\ PreOpposite[i].userId = last.userId
        /\ IF last.side = "buy" THEN PreOpposite[i].price <= last.price
                                ELSE PreOpposite[i].price >= last.price

\* C10: under CANCEL_NEWEST an order crossing an own resting order is rejected
\* with executedQty 0, no fills and an STP reason; book and balances are unchanged
C10_SelfTradeRejectedUnchanged ==
    (ReachedBook /\ OwnCrossing) =>
        /\ last.addStatus = "REJECTED"
        /\ last.executedQty = 0
        /\ last.fills = <<>>
        /\ last.err = "STP: Cancel Newest"
        /\ apiOut[1].type = "ORDER_REJECTED"
        /\ orderbook = pre.ob
        /\ balances = pre.bal

\* an order of positive size crossed an own resting order that others had joined
C10_Witness ==
    /\ ReachedBook /\ OwnCrossing
    /\ last.quantity > 0
    /\ Len(PreOpposite) >= 2

(* ---------------- C11 - C13: rejections and the pre-trade lock ---------------- *)

Rejected == IsCreate /\ Len(apiOut) = 1 /\ apiOut[1].type = "ORDER_REJECTED"

\* C11: a CREATE_ORDER that addOrder rejected for self-trade prevention is
\* answered with ORDER_REJECTED, code SELF_TRADE, empty order id and zero
\* quantities; every other rejected CREATE_ORDER carries code ORDER_FAILED
C11_StpRejectionCode ==
    /\ (IsCreate /\ last.addStatus = "REJECTED")
          => /\ Rejected
             /\ apiOut[1].payload.code = "SELF_TRADE"
             /\ apiOut[1].payload.orderId = 0
             /\ apiOut[1].payload.executedQty = 0
             /\ apiOut[1].payload.remainingQty = 0
    /\ (Rejected /\ last.addStatus # "REJECTED")
          => apiOut[1].payload.code = "ORDER_FAILED"

\* C12: a CREATE_ORDER for a market outside the registry or with a price or
\* quantity that is not positive is answered with ORDER_REJECTED, code
\* ORDER_FAILED, and changes neither the book nor the ledger
C12_InvalidOrderRejected ==
    (IsCreate /\ (last.market # "TATA_INR" \/ last.price <= 0 \/ last.quantity <= 0))
        => /\ Rejected
           /\ apiOut[1].payload.code = "ORDER_FAILED"
           /\ orderbook = pre.ob
           /\ balances = pre.bal

OnKnownMarket == IsCreate /\ last.market = "TATA_INR"
LockAsset == IF last.side = "buy" THEN "INR" ELSE "TATA"
\* quantity * price of quote for a buy, quantity of base for a sell
LockRequired == IF last.side = "buy" THEN last.quantity * last.price ELSE last.quantity
LockMustFail ==
    \/ ~HasEntry(pre.bal, last.userId, LockAsset)
    \/ pre.bal[last.userId][LockAsset].available < LockRequired

\* the lock failed: the order never reached the book, nothing changed
LockFailedUnchanged ==
    /\ last.addStatus = "NONE"
    /\ Rejected
    /\ orderbook = pre.ob
    /\ balances = pre.bal

\* the lock moved exactly the required amount from available to locked of the
\* one asset of the one user, and the order went on to the book
LockMoved ==
    LET r == checkAndLockFunds(pre.bal, "TATA", "INR", last.side, last.userId,
                               last.price, last.quantity)
        entry == pre.bal[last.userId][LockAsset]
    IN /\ r.err = NoError
       /\ r.bal = [pre.bal EXCEPT ![last.userId][LockAsset] =
                     Entry(entry.available - LockRequired, entry.locked + LockRequired)]
       /\ last.addStatus # "NONE"
       /\ (last.addStatus = "ACCEPTED" /\ last.fills = <<>>) => balances = r.bal

LockError ==
    IF last.userId \notin DOMAIN pre.bal THEN "User not found"
    ELSE IF Comp(pre.bal, last.userId, LockAsset, "available") < LockRequired
    THEN "Insufficient funds"
    ELSE TypeError

IsCancel == last.type = "CANCEL_ORDER"
RestingIn(ob, oid) ==
    {ob.bids[i] : i \in {j \in 1..Len(ob.bids) : ob.bids[j].orderId = oid}}
        \cup {ob.asks[i] : i \in {j \in 1..Len(ob.asks) : ob.asks[j].orderId = oid}}
\* the last command cancelled an order that was resting in the book
CancelOfResting ==
    IsCancel /\ last.market = "TATA_INR" /\ RestingIn(pre.ob, last.orderId) # {}
Without(orders, oid) == SelectSeq(orders, LAMBDA o : o.orderId # oid)

\* what the cancel of order o adds to one balance component
RefundDelta(o, u, a, f) ==
    LET left == o.quantity - o.filled
        amount == IF o.side = "buy" THEN left * o.price ELSE left
        asset == IF o.side = "buy" THEN "INR" ELSE "TATA"
    IN IF u = o.userId /\ a = asset
       THEN (IF f = "available" THEN amount ELSE 0 - amount)
       ELSE 0

\* C14: the cancel of a resting order removes it from its side, lowers the
\* depth at its price by quantity - filled, moves (quantity - filled) * price of
\* quote (buy) or quantity - filled of base (sell) from the owner's locked to
\* available, changes no other order and no other balance, and publishes
\* ORDER_CANCELLED and a depth message for the price with the new aggregate
\* of the level, 0 when the level is empty
C14_CancelRestingOrder ==
    CancelOfResting =>
        LET o == CHOOSE x \in RestingIn(pre.ob, last.orderId) : TRUE
            left == o.quantity - o.filled
        IN /\ orderbook.bids = Without(pre.ob.bids, o.orderId)
           /\ orderbook.asks = Without(pre.ob.asks, o.orderId)
           /\ Len(orderbook.bids) + Len(orderbook.asks)
                = Len(pre.ob.bids) + Len(pre.ob.asks) - 1
           /\ \A p \in Prices :
                /\ DepthGet(orderbook.bidsDepth, p) = DepthGet(pre.ob.bidsDepth, p)
                      - (IF o.side = "buy" /\ p = o.price THEN left ELSE 0)
                /\ DepthGet(orderbook.asksDepth, p) = DepthGet(pre.ob.asksDepth, p)
                      - (IF o.side = "sell" /\ p = o.price THEN left ELSE 0)
           /\ orderbook.lastTradeId = pre.ob.lastTradeId
           /\ orderbook.currentPrice = pre.ob.currentPrice
           /\ \A u \in AllUsers, a \in Assets, f \in Fields :
                Comp(balances, u, a, f) = Comp(pre.bal, u, a, f) + RefundDelta(o, u, a, f)
           /\ DOMAIN balances = DOMAIN pre.bal
           /\ Len(apiOut) = 1 /\ apiOut[1].type = "ORDER_CANCELLED"
           /\ apiOut[1].payload.orderId = o.orderId
           /\ depthOut = << [a |-> << <<o.price, RemainingAt(orderbook.asks, o.price)>> >>,
                             b |-> << <<o.price, RemainingAt(orderbook.bids, o.price)>> >>] >>

\* a partly filled bid was cancelled
C14_Witness ==
    /\ CancelOfResting
    /\ \E o \in RestingIn(pre.ob, last.orderId) : o.filled > 0 /\ o.side = "buy"

\* C15: a CANCEL_ORDER for an id that is not resting (never existed, already
\* cancelled, fully filled) changes neither the book nor any balance, and
\* cancelBid / cancelAsk for such an id leave the book alone and return undefined
C15_CancelIdempotent ==
    /\ (IsCancel /\ ~CancelOfResting) => (orderbook = pre.ob /\ balances = pre.bal)
    /\ \A oid \in 1..nextOrderId :
         LET order == [orderId |-> oid]
         IN /\ (\A i \in 1..Len(orderbook.bids) : orderbook.bids[i].orderId # oid)
                  => /\ cancelBid(orderbook, order) = orderbook
                     /\ cancelBidReturn(orderbook, order) = undefined
            /\ (\A i \in 1..Len(orderbook.asks) : orderbook.asks[i].orderId # oid)
                  => /\ cancelAsk(orderbook, order) = orderbook
                     /\ cancelAskReturn(orderbook, order) = undefined

\* the only order ever placed was cancelled, and is cancelled a second time
C15_Witness ==
    /\ IsCancel /\ last.err = "No order found"
    /\ last.orderId = 1 /\ nextOrderId = 2
    /\ pre.ob.bids = <<>> /\ pre.ob.asks = <<>>
    /\ pre.bal = setBaseBalances

C17_SnapshotRoundTrip ==
    last.type = "RESTART" => (orderbook = pre.ob /\ balances = pre.bal)

\* C18: the snapshot file is never partial or empty when the engine is
\* started, and the start never fails on it
C18_SnapshotFileAtomic ==
    /\ ~running => snapshotFile # PartialFile
    /\ last.type # "START_FAILED"

\* the state after the last command that ran to completion
Boundary ==
    IF pending = NoPending THEN [ob |-> orderbook, bal |-> balances] ELSE pre

\* C19: every snapshot written by the timer records the book and the ledger
\* as they are after a command that ran to completion, never a state in which
\* funds are locked for an order that was not matched and settled yet
C19_SnapshotAtCommandBoundary ==
    last.type = "SNAPSHOT"
        => snapshotFile = CompleteFile(<<getSnapshot(Boundary.ob)>>, Boundary.bal)

\* the timer wrote a snapshot of a book in which an order had been matched
C19_Witness ==
    /\ snapshotFile.kind = "complete"
    /\ snapshotFile.orderbooks[1].lastTradeId > 0
    /\ last.type = "SNAPSHOT"

\* C20: a snapshot write that raises an error leaves the engine running
C20_WriteErrorContained ==
    last.type = "SNAPSHOT_FAILED" => running

(* ---------------- C21: trade ids ---------------- *)

\* the counter grew by one per fill of the last CREATE_ORDER, and the k-th fill
\* carries the value the counter had before its increment
FillIdsFollowCounter ==
    (IsCreate /\ pending = NoPending) =>
        /\ orderbook.lastTradeId = pre.ob.lastTradeId + Len(last.fills)
        /\ \A k \in 1..Len(last.fills) :
             last.fills[k].tradeId = pre.ob.lastTradeId + k - 1

\* the process was started in this step
Started == ~running /\ running'

\* while the engine process runs the counter never decreases; a start of the
\* process sets it to the value in the snapshot it starts from (0 without one)
TradeIdsWhileRunning ==
    /\ []FillIdsFollowCounter
    /\ [][IF Started
          THEN orderbook'.lastTradeId =
                 (IF snapshotFile = NoFile THEN 0
                  ELSE snapshotFile.orderbooks[1].lastTradeId)
          ELSE orderbook'.lastTradeId >= orderbook.lastTradeId]_vars

\* C21: per market lastTradeId never decreases, it grows by exactly one per
\* fill and each fill carries the value before its increment, so that the
\* trade ids of all fills of the market are distinct and increasing, across
\* all commands and across a snapshot/restore
C21_TradeIds ==
    /\ []FillIdsFollowCounter
    /\ [][orderbook'.lastTradeId >= orderbook.lastTradeId]_vars

(* ---------------- C22: depth message of a placed order ---------------- *)

\* the last command was a CREATE_ORDER answered with ORDER_PLACED
Placed == IsCreate /\ Len(apiOut) = 1 /\ apiOut[1].type = "ORDER_PLACED"

\* the entries of the depth message for the side opposite to / of the taker
OppositeEntries == IF last.side = "buy" THEN depthOut[1].a ELSE depthOut[1].b
OwnEntries == IF last.side = "buy" THEN depthOut[1].b ELSE depthOut[1].a
\* the depth maps of the book after the command
OppositeDepth == IF last.side = "buy" THEN orderbook.asksDepth ELSE orderbook.bidsDepth
OwnDepth == IF last.side = "buy" THEN orderbook.bidsDepth ELSE orderbook.asksDepth

HasEntry22(entries, price, qty) ==
    \E i \in 1..Len(entries) : entries[i] = <<price, qty>>

\* C22: the depth message of a placed order has, for every opposite-side
\* price at which a fill occurred, an entry with the level's new aggregate
\* (quantity 0 if the fills emptied the level), and, if the taker left a
\* residue, an entry for the taker's price on its own side with the new aggregate
C22_DepthDelta ==
    Placed =>
        /\ Len(depthOut) = 1
        /\ \A k \in 1..Len(last.fills) :
             HasEntry22(OppositeEntries, last.fills[k].price,
                        DepthGet(OppositeDepth, last.fills[k].price))
        /\ last.executedQty < last.quantity =>
             HasEntry22(OwnEntries, last.price, DepthGet(OwnDepth, last.price))

\* what the message does contain: the levels that still exist
DepthDeltaOfRemainingLevels ==
    Placed =>
        /\ Len(depthOut) = 1
        /\ \A k \in 1..Len(last.fills) :
             IF last.fills[k].price \in DOMAIN OppositeDepth
             THEN HasEntry22(OppositeEntries, last.fills[k].price,
                             OppositeDepth[last.fills[k].price])
             ELSE \A i \in 1..Len(OppositeEntries) :
                     OppositeEntries[i][1] # last.fills[k].price
        /\ last.executedQty < last.quantity =>
             HasEntry22(OwnEntries, last.price, DepthGet(OwnDepth, last.price))

(* ---------------- C23: the events of a placed order ---------------- *)

OfType(msgs, type) == SelectSeq(msgs, LAMBDA x : x.type = type)
OnStream(msgs, stream) == SelectSeq(msgs, LAMBDA x : x.stream = stream)
TradeEvents == OnStream(wsOut, "trade@" \o last.market)
UserTradeEvents == SelectSeq(wsOut, LAMBDA x : x.data.e = "userTrade")
TakerUpdates == SelectSeq(OfType(dbOut, "ORDER_UPDATE"),
                          LAMBDA x : x.data.orderId = last.orderId)
MakerUpdates == SelectSeq(OfType(dbOut, "ORDER_UPDATE"),
                          LAMBDA x : x.data.orderId # last.orderId)
OtherSide(side) == IF side = "buy" THEN "sell" ELSE "buy"

\* C23: a CREATE_ORDER answered with ORDER_PLACED and n fills emits exactly n
\* TRADE_ADDED records (trade id, price, qty, quote quantity qty*price,
\* isBuyerMaker = taker sells), exactly n trade@<market> events, one
\* ORDER_UPDATE per fill for the maker order with the fill's quantity, exactly
\* one ORDER_UPDATE for the taker with the cumulative executed quantity, and
\* per fill one userTrades event for the taker (role taker, taker's side) and
\* one for the maker (role maker, opposite side), all in fill order
C23_PerFillEvents ==
    Placed =>
        LET fills == last.fills
            n == Len(fills)
        IN /\ Len(OfType(dbOut, "TRADE_ADDED")) = n
           /\ \A k \in 1..n :
                OfType(dbOut, "TRADE_ADDED")[k].data =
                    [market |-> last.market, id |-> ToString(fills[k].tradeId),
                     isBuyerMaker |-> (last.side = "sell"),
                     price |-> fills[k].price, quantity |-> fills[k].qty,
                     quoteQuantity |-> fills[k].qty * fills[k].price]
           /\ Len(TradeEvents) = n
           /\ \A k \in 1..n :
                /\ TradeEvents[k].data.t = fills[k].tradeId
                /\ TradeEvents[k].data.p = fills[k].price
                /\ TradeEvents[k].data.q = fills[k].qty
                /\ TradeEvents[k].data.m = (last.side = "sell")
           /\ Len(MakerUpdates) = n
           /\ \A k \in 1..n :
                MakerUpdates[k].data = [orderId |-> MakerOf(fills[k]).orderId,
                                        executedQty |-> fills[k].qty]
           /\ Len(TakerUpdates) = 1
           /\ TakerUpdates[1].data.executedQty =
                SumSeq([k \in 1..n |-> fills[k].qty])
           /\ Len(dbOut) = 2 * n + 1
           /\ Len(UserTradeEvents) = 2 * n
           /\ Len(wsOut) = 3 * n
           /\ \A k \in 1..n :
                /\ UserTradeEvents[2 * k - 1].stream = "userTrades@" \o last.userId
                /\ UserTradeEvents[2 * k - 1].data =
                     [e |-> "userTrade", t |-> fills[k].tradeId, s |-> last.market,
                      p |-> fills[k].price, q |-> fills[k].qty,
                      side |-> last.side, role |-> "taker"]
                /\ UserTradeEvents[2 * k].stream =
                     "userTrades@" \o MakerOf(fills[k]).userId
                /\ UserTradeEvents[2 * k].data =
                     [e |-> "userTrade", t |-> fills[k].tradeId, s |-> last.market,
                      p |-> fills[k].price, q |-> fills[k].qty,
                      side |-> OtherSide(last.side), role |-> "maker"]

\* a placed sell produced two fills against two resting bids
C23_Witness ==
    /\ Placed
    /\ last.side = "sell"
    /\ Len(last.fills) = 2
    /\ Len(dbOut) = 5
    /\ MakerOf(last.fills[1]).orderId # MakerOf(last.fills[2]).orderId
    /\ MakerOf(last.fills[1]).userId # last.userId

(* ---------------- C24: what ORDER_PLACED shows of a fill ---------------- *)

\* C24: the ORDER_PLACED result exposes, for each fill, only price, qty and
\* the trade id: it does not contain the identity of the maker, so that it is
\* the same whichever other user owns the resting orders
C24_ResultHidesMaker ==
    Placed =>
        \A k \in 1..Len(apiOut[1].payload.fills) :
            DOMAIN apiOut[1].payload.fills[k] = {"price", "qty", "tradeId"}

\* price, qty and trade id of each fill are in the result as matched
PlacedFillsAsMatched ==
    Placed =>
        /\ Len(apiOut[1].payload.fills) = Len(last.fills)
        /\ \A k \in 1..Len(last.fills) :
             /\ apiOut[1].payload.fills[k].price = last.fills[k].price
             /\ apiOut[1].payload.fills[k].qty = last.fills[k].qty
             /\ apiOut[1].payload.fills[k].tradeId = last.fills[k].tradeId

(* ---------------- C25: status and residue of addOrder ---------------- *)

\* the last command's order reached addOrder and was not rejected by it
NotRejected == ReachedBook /\ last.addStatus # "REJECTED"
OwnSide(ob) == IF last.side = "buy" THEN ob.bids ELSE ob.asks
OwnDepthOf(ob) == IF last.side = "buy" THEN ob.bidsDepth ELSE ob.asksDepth
\* the entries of the taker's own order in the book after the command
Residue == SelectSeq(OwnSide(orderbook), LAMBDA o : o.orderId = last.orderId)

\* C25: for an order addOrder did not reject, the status is PARTIALLY_FILLED
\* iff at least one fill occurred and a residue was inserted, otherwise
\* ACCEPTED; the residue is inserted iff executedQty < quantity, with
\* filled = executedQty, and the depth at its price grows by quantity - executedQty
C25_AddOrderStatus ==
    NotRejected =>
        /\ last.addStatus = "PARTIALLY_FILLED"
             <=> (Len(last.fills) >= 1 /\ Len(Residue) = 1)
        /\ last.addStatus \in {"PARTIALLY_FILLED", "ACCEPTED"}
        /\ Len(Residue) = (IF last.executedQty < last.quantity THEN 1 ELSE 0)
        /\ Len(OwnSide(orderbook)) = Len(OwnSide(pre.ob)) + Len(Residue)
        /\ Len(Residue) = 1 =>
             /\ Residue[1].filled = last.executedQty
             /\ Residue[1].quantity = last.quantity
             /\ Residue[1].price = last.price
        /\ \A p \in Prices :
             DepthGet(OwnDepthOf(orderbook), p) =
                 DepthGet(OwnDepthOf(pre.ob), p)
                   + (IF p = last.price /\ Len(Residue) = 1
                      THEN last.quantity - last.executedQty ELSE 0)

\* an order was partly filled and its remainder rests behind depth that was there
C25_Witness ==
    /\ NotRejected
    /\ last.addStatus = "PARTIALLY_FILLED"
    /\ Len(Residue) = 1
    /\ Residue[1].filled > 0

\* an order was filled completely and reported as ACCEPTED
C25_WitnessFilled ==
    /\ NotRejected
    /\ last.addStatus = "ACCEPTED"
    /\ Len(last.fills) >= 1
    /\ Len(Residue) = 0

(* ---------------- C26: STP modes that remove resting orders ---------------- *)

OppositeSide(ob) == IF last.side = "buy" THEN ob.asks ELSE ob.bids
OppositeDepthOf(ob) == IF last.side = "buy" THEN ob.asksDepth ELSE ob.bidsDepth
\* ask price <= buy price, or bid price >= sell price
Crossing(o) ==
    IF last.side = "buy" THEN o.price <= last.price ELSE o.price >= last.price
\* a resting order of the taker's user on the opposite side at a crossing price
Conflicting(o) == o.userId = last.userId /\ o.side # last.side /\ Crossing(o)
Conflicts == SelectSeq(PreOpposite, Conflicting)
Others == SelectSeq(PreOpposite, LAMBDA o : ~Conflicting(o))
\* the quantity filled at price p by the last command
FilledAt(p) ==
    SumSeq([k \in 1..Len(last.fills) |->
              IF last.fills[k].price = p THEN last.fills[k].qty ELSE 0])
\* the order reached addOrder with mode m in effect and conflicting orders
Removing(m) == ReachedBook /\ pre.ob.stpMode = m /\ Len(Conflicts) > 0

\* C26: in CANCEL_OLDEST and CANCEL_BOTH mode addOrder removes exactly the
\* conflicting resting orders (same user, opposite side, crossing price),
\* decrements depth by their remainders and leaves every other resting order
\* untouched; CANCEL_BOTH then returns REJECTED with cancelledOrders being
\* those order ids, without matching or inserting the taker; CANCEL_OLDEST
\* goes on to match the taker against the remaining book and rests its residue
C26_StpRemoval ==
    /\ Removing("CANCEL_BOTH") =>
         /\ last.addStatus = "REJECTED"
         /\ last.cancelledOrders = [k \in 1..Len(Conflicts) |-> Conflicts[k].orderId]
         /\ OppositeSide(orderbook) = Others
         /\ OwnSide(orderbook) = OwnSide(pre.ob)
         /\ OwnDepthOf(orderbook) = OwnDepthOf(pre.ob)
         /\ \A p \in Prices :
              DepthGet(OppositeDepthOf(orderbook), p) =
                  DepthGet(OppositeDepthOf(pre.ob), p) - RemainingAt(Conflicts, p)
         /\ orderbook.lastTradeId = pre.ob.lastTradeId
         /\ last.fills = <<>>
    /\ Removing("CANCEL_OLDEST") =>
         /\ last.addStatus \in {"ACCEPTED", "PARTIALLY_FILLED"}
         \* no conflicting order is left and none took part in a fill
         /\ \A i \in 1..Len(OppositeSide(orderbook)) :
              ~Conflicting(OppositeSide(orderbook)[i])
         /\ \A k \in 1..Len(last.fills) : ~Conflicting(MakerOf(last.fills[k]))
         \* the other orders are as the match against them leaves them
         /\ \A i \in 1..Len(Others) :
              \/ \E j \in 1..Len(OppositeSide(orderbook)) :
                    /\ OppositeSide(orderbook)[j].orderId = Others[i].orderId
                    /\ \/ OppositeSide(orderbook)[j] = Others[i]
                       \/ \E k \in 1..Len(last.fills) :
                             last.fills[k].markerOrderId = Others[i].orderId
              \/ \E k \in 1..Len(last.fills) :
                    last.fills[k].markerOrderId = Others[i].orderId
         /\ \A p \in Prices :
              DepthGet(OppositeDepthOf(orderbook), p) =
                  DepthGet(OppositeDepthOf(pre.ob), p) - RemainingAt(Conflicts, p)
                    - FilledAt(p)
         \* the taker was matched against what remained and its residue rests
         /\ last.executedQty = SumSeq([k \in 1..Len(last.fills) |-> last.fills[k].qty])
         /\ \/ last.quantity <= 0
            \/ last.executedQty = min(last.quantity, SumSeq([i \in 1..Len(Others) |->
                   IF Crossing(Others[i])
                   THEN Others[i].quantity - Others[i].filled ELSE 0]))
         /\ Len(Residue) = (IF last.executedQty < last.quantity THEN 1 ELSE 0)

\* under CANCEL_OLDEST an own bid was removed, the sell was matched with
\* another user's bid and its remainder rests
C26_Witness ==
    /\ Removing("CANCEL_OLDEST")
    /\ HasFills
    /\ Len(Residue) = 1
    /\ Len(Others) > 0

\* under CANCEL_BOTH two own orders were removed and the order was rejected
C26_WitnessBoth ==
    /\ Removing("CANCEL_BOTH")
    /\ Len(Conflicts) = 2
    /\ last.addStatus = "REJECTED"

(* ---------------- C27: when self-trade prevention triggers ---------------- *)

\* the resting orders of the taker's user on the opposite side
OwnOpposite(ob) == SelectSeq(OppositeSide(ob), LAMBDA o : o.userId = last.userId)

\* self-trade prevention acted on the last order: it was rejected, or (under
\* CANCEL_OLDEST) resting orders of its user were taken out of the book
StpTriggered ==
    IF pre.ob.stpMode = "CANCEL_OLDEST"
    THEN OwnOpposite(orderbook) # OwnOpposite(pre.ob)
    ELSE last.addStatus = "REJECTED"

\* C27: self-trade prevention triggers for an incoming order iff some resting
\* opposite-side order of the same user has a crossing price, whether or not
\* the incoming quantity would be used up before that order is reached; with
\* an own resting order at a non-crossing price only, the order is accepted
\* as any other
C27_StpTrigger ==
    ReachedBook =>
        /\ StpTriggered <=> Len(Conflicts) > 0
        /\ Len(Conflicts) = 0 =>
             /\ last.addStatus \in {"ACCEPTED", "PARTIALLY_FILLED"}
             /\ last.cancelledOrders = <<>>
             /\ OwnOpposite(orderbook) = OwnOpposite(pre.ob)

\* the best opposite order belongs to another user and alone would fill the
\* incoming order; an own order behind it crosses, and prevention triggered
C27_Witness ==
    /\ ReachedBook
    /\ Len(PreOpposite) >= 2
    /\ PreOpposite[1].userId # last.userId
    /\ Crossing(PreOpposite[1])
    /\ PreOpposite[1].quantity - PreOpposite[1].filled >= last.quantity
    /\ last.quantity > 0
    /\ Len(Conflicts) > 0
    /\ StpTriggered

\* an own resting order at a non-crossing price: the order is accepted
C27_WitnessNoCross ==
    /\ ReachedBook
    /\ Len(OwnOpposite(pre.ob)) > 0
    /\ Len(Conflicts) = 0
    /\ last.addStatus = "ACCEPTED"
    /\ Len(Residue) = 1

(* ---------------- C28: book ordering ---------------- *)

MaxArrayLen == 3

\* bids non-increasing, asks non-decreasing in price
PriceOrdered(orders, side) ==
    \A i \in 1..(Len(orders) - 1) :
        IF side = "buy" THEN orders[i].price >= orders[i + 1].price
                        ELSE orders[i].price <= orders[i + 1].price

\* among equal prices the order inserted earlier is nearer the head; order
\* ids are handed out in the order of the CREATE_ORDER commands
TimeOrdered(orders) ==
    \A i, j \in 1..Len(orders) :
        (i < j /\ orders[i].price = orders[j].price)
            => orders[i].orderId < orders[j].orderId

\* the input arrays of a constructor call: the k-th element has order id k
InputArrays == UNION {[1..n -> Prices] : n \in 0..MaxArrayLen}
ArrayOf(prices, side) ==
    [k \in 1..Len(prices) |->
        [price |-> prices[k], quantity |-> 2, orderId |-> k, filled |-> 0,
         side |-> side, userId |-> "1"]]

\* the constructor leaves both sides ordered by price, equal prices in the
\* order of the input array, and drops or adds nothing
ConstructedOrdered ==
    \A prices \in InputArrays :
        LET ob == NewOrderbook("TATA", ArrayOf(prices, "buy"), ArrayOf(prices, "sell"),
                               0, 0, "CANCEL_NEWEST")
        IN /\ PriceOrdered(ob.bids, "buy") /\ TimeOrdered(ob.bids)
           /\ PriceOrdered(ob.asks, "sell") /\ TimeOrdered(ob.asks)
           /\ {ob.bids[i].orderId : i \in 1..Len(ob.bids)} = 1..Len(prices)
           /\ {ob.asks[i].orderId : i \in 1..Len(ob.asks)} = 1..Len(prices)
           /\ Len(ob.bids) = Len(prices) /\ Len(ob.asks) = Len(prices)

\* C28: after every command, and after construction from any input arrays,
\* bids are non-increasing and asks non-decreasing in price, and among orders
\* of equal price the one inserted earlier is nearer the head (a new residue
\* goes behind all resting orders of its price)
C28_BookOrdering ==
    /\ PriceOrdered(orderbook.bids, "buy") /\ TimeOrdered(orderbook.bids)
    /\ PriceOrdered(orderbook.asks, "sell") /\ TimeOrdered(orderbook.asks)
    /\ ConstructedOrdered

\* a residue went behind a resting bid of its price while a better bid leads
C28_Witness ==
    /\ Len(orderbook.bids) = 3
    /\ orderbook.bids[1].price > orderbook.bids[2].price
    /\ orderbook.bids[2].price = orderbook.bids[3].price
    /\ Len(Residue) = 1
    /\ Residue[1] = orderbook.bids[3]

(* ---------------- C29: resting orders ---------------- *)

AllResting(ob) == {ob.bids[i] : i \in 1..Len(ob.bids)} \cup {ob.asks[i] : i \in 1..Len(ob.asks)}

\* the quantity the last command filled of the resting order oid
FilledOf(oid) ==
    SumSeq([k \in 1..Len(last.fills) |->
              IF last.fills[k].markerOrderId = oid THEN last.fills[k].qty ELSE 0])

\* the makers the last command filled up to their quantity
FilledUp ==
    {o \in {PreOpposite[i] : i \in 1..Len(PreOpposite)} :
        FilledOf(o.orderId) > 0 /\ o.filled + FilledOf(o.orderId) = o.quantity}

\* C29: after every command every order in bids or asks has
\* 0 <= filled < quantity; a maker whose filled reaches its quantity is removed
\* from the book in the same command, and if it was the last order at its
\* price the depth entry of that price is erased
C29_RestingOrders ==
    /\ \A o \in AllResting(orderbook) : 0 <= o.filled /\ o.filled < o.quantity
    /\ HasFills =>
         \A o \in FilledUp :
            /\ RestingIn(orderbook, o.orderId) = {}
            /\ RemainingAt(OppositeSide(orderbook), o.price) = 0
                 => o.price \notin DOMAIN OppositeDepthOf(orderbook)

\* a maker was filled up and removed and the depth entry of its price erased,
\* while a partly filled order rests in the book
C29_Witness ==
    /\ HasFills
    /\ \E o \in FilledUp : o.price \notin DOMAIN OppositeDepthOf(orderbook)
    /\ \E o \in AllResting(orderbook) : o.filled > 0

(* ---------------- C30: the life of an order ---------------- *)

IdsIn(ob) == {o.orderId : o \in AllResting(ob)}
Resting(ob, oid) == CHOOSE o \in AllResting(ob) : o.orderId = oid

\* between two states: an order that stays keeps price, quantity, side and
\* user, and its filled does not decrease
StaysAsItIs(o) ==
    LET o2 == Resting(orderbook', o.orderId)
    IN /\ o2.price = o.price /\ o2.quantity = o.quantity
       /\ o2.side = o.side /\ o2.userId = o.userId
       /\ o2.filled >= o.filled

\* the step is a CREATE_ORDER whose fills bring the resting order o to its quantity
FilledUpBy(o) ==
    /\ last'.type = "CREATE_ORDER"
    /\ o.filled + SumSeq([k \in 1..Len(last'.fills) |->
                            IF last'.fills[k].markerOrderId = o.orderId
                            THEN last'.fills[k].qty ELSE 0]) = o.quantity
    /\ \E k \in 1..Len(last'.fills) : last'.fills[k].markerOrderId = o.orderId

\* the step is a CANCEL_ORDER of o
CancelledBy(o) == last'.type = "CANCEL_ORDER" /\ last'.orderId = o.orderId

\* the step is a CREATE_ORDER of o's user that crosses o, in a removing mode
StpRemovedBy(o) ==
    /\ last'.type = "CREATE_ORDER"
    /\ orderbook.stpMode \in {"CANCEL_OLDEST", "CANCEL_BOTH"}
    /\ o.userId = last'.userId /\ o.side # last'.side
    /\ IF o.side = "sell" THEN o.price <= last'.price ELSE o.price >= last'.price

\* the order o2 is the residue of the CREATE_ORDER of this step, under a new id
EnteredAsResidue(o2) ==
    /\ last'.type = "CREATE_ORDER"
    /\ o2.orderId = nextOrderId /\ nextOrderId' = nextOrderId + 1
    /\ o2.price = last'.price /\ o2.quantity = last'.quantity
    /\ o2.side = last'.side /\ o2.userId = last'.userId
    /\ o2.filled = last'.executedQty

\* the step is a CREATE_ORDER answered with ORDER_REJECTED
RejectedStep ==
    last'.type = "CREATE_ORDER" /\ Len(apiOut') = 1 /\ apiOut'[1].type = "ORDER_REJECTED"

\* resting orders change and leave, and new ones enter, only as stated; order
\* ids are never handed out twice, so an order that left does not come back
LifecycleOfRestingOrders ==
    /\ [](\A o \in AllResting(orderbook) : o.orderId < nextOrderId)
    /\ [][/\ nextOrderId' >= nextOrderId
          /\ \A o \in AllResting(orderbook) :
               IF o.orderId \in IdsIn(orderbook')
               THEN StaysAsItIs(o)
               ELSE FilledUpBy(o) \/ CancelledBy(o) \/ StpRemovedBy(o)
          /\ \A o2 \in AllResting(orderbook') :
               o2.orderId \notin IdsIn(orderbook) => EnteredAsResidue(o2)]_vars

\* C30: over any command sequence an order's filled never decreases and its
\* price, quantity, side and user never change; an order enters the book only
\* as the residue of its own CREATE_ORDER, leaves it only by being filled up,
\* cancelled or removed by self-trade prevention, and never re-enters; a
\* rejected order never rests and never fills
C30_OrderLifecycle ==
    /\ LifecycleOfRestingOrders
    /\ [][RejectedStep =>
            /\ IdsIn(orderbook') \subseteq IdsIn(orderbook)
            /\ orderbook'.lastTradeId = orderbook.lastTradeId]_vars

(* ---------------- C31: WITHDRAW ---------------- *)

IsWithdraw == last.type = "WITHDRAW"
BookUnchanged == orderbook = pre.ob
\* the user or the base-currency entry is absent, or available < amount
WithdrawMustFail ==
    \/ ~HasEntry(pre.bal, last.userId, BASE_CURRENCY)
    \/ pre.bal[last.userId][BASE_CURRENCY].available < last.amount

\* C31: a WITHDRAW of an absent user or entry or of more than is available is
\* answered with WITHDRAW_FAILED and leaves the ledger unchanged; otherwise
\* available of the base currency decreases by exactly the amount, locked and
\* every other balance stay, and WITHDRAW_SUCCESS carries the new available
\* balance and the caller's txnId; no balance increases and locked is not used
C31_Withdraw ==
    IsWithdraw =>
        /\ Len(apiOut) = 1
        /\ BookUnchanged
        /\ IF WithdrawMustFail
           THEN /\ apiOut[1].type = "WITHDRAW_FAILED"
                /\ balances = pre.bal
           ELSE /\ apiOut[1].type = "WITHDRAW_SUCCESS"
                /\ balances = [pre.bal EXCEPT ![last.userId][BASE_CURRENCY].available =
                                                 @ - last.amount]
                /\ apiOut[1].payload.newBalance =
                     balances[last.userId][BASE_CURRENCY].available
                /\ apiOut[1].payload.txnId = last.txnId
                /\ apiOut[1].payload.newBalance >= 0
        /\ DOMAIN balances = DOMAIN pre.bal
        /\ \A u \in DOMAIN balances :
             /\ DOMAIN balances[u] = DOMAIN pre.bal[u]
             /\ \A a \in DOMAIN balances[u] :
                  /\ balances[u][a].available <= pre.bal[u][a].available
                  /\ balances[u][a].locked = pre.bal[u][a].locked

\* a user with funds locked for a resting bid withdrew from the available part
C31_Witness ==
    /\ IsWithdraw
    /\ apiOut[1].type = "WITHDRAW_SUCCESS"
    /\ pre.bal[last.userId][BASE_CURRENCY].locked > 0
    /\ balances[last.userId][BASE_CURRENCY].available
         < pre.bal[last.userId][BASE_CURRENCY].available

\* a withdrawal of more than the available balance failed
C31_WitnessInsufficient ==
    /\ IsWithdraw
    /\ HasEntry(pre.bal, last.userId, BASE_CURRENCY)
    /\ apiOut[1].type = "WITHDRAW_FAILED"

(* ---------------- C32: ON_RAMP ---------------- *)

IsOnRamp == last.type = "ON_RAMP"
\* a component before the command, 0 where the entry did not exist
Before(u, a, field) == IF HasEntry(pre.bal, u, a) THEN pre.bal[u][a][field] ELSE 0

\* C32: ON_RAMP credits exactly the amount to the user's available base
\* currency, creating the user entry or the asset entry with locked 0 if it
\* is absent; no locked component, other asset, other user or book changes,
\* and ON_RAMP_SUCCESS reports the user's new available balance
C32_OnRamp ==
    IsOnRamp =>
        /\ BookUnchanged
        /\ DOMAIN balances = DOMAIN pre.bal \cup {last.userId}
        /\ \A u \in DOMAIN pre.bal \ {last.userId} : balances[u] = pre.bal[u]
        /\ DOMAIN balances[last.userId] =
             (IF last.userId \in DOMAIN pre.bal THEN DOMAIN pre.bal[last.userId] ELSE {})
               \cup {BASE_CURRENCY}
        /\ \A a \in DOMAIN balances[last.userId] :
             /\ balances[last.userId][a].locked = Before(last.userId, a, "locked")
             /\ balances[last.userId][a].available =
                  Before(last.userId, a, "available")
                    + (IF a = BASE_CURRENCY THEN last.amount ELSE 0)
        /\ apiOut = << [type |-> "ON_RAMP_SUCCESS",
                        payload |-> [userId |-> last.userId, amount |-> last.amount,
                                     newBalance |->
                                       balances[last.userId][BASE_CURRENCY].available]] >>

\* a user with a resting order (locked funds) and a base-asset entry was credited
C32_Witness ==
    /\ IsOnRamp
    /\ last.userId \in DOMAIN pre.bal
    /\ \E a \in DOMAIN pre.bal[last.userId] : pre.bal[last.userId][a].locked > 0
    /\ "TATA" \in DOMAIN pre.bal[last.userId]

\* the user entry was created by the ON_RAMP
C32_WitnessNewUser ==
    /\ IsOnRamp
    /\ last.userId \notin DOMAIN pre.bal
    /\ balances[last.userId] = [a \in {BASE_CURRENCY} |-> Entry(last.amount, 0)]

(* ---------------- C33: queries ---------------- *)

IsQuery == last.type \in {"GET_DEPTH", "GET_OPEN_ORDERS", "GET_BALANCE"}

\* the levels are the prices with resting quantity, each with its aggregate,
\* best price first
LevelsOf(levels, orders, side) ==
    /\ \A i \in 1..Len(levels) :
         /\ levels[i][2] > 0
         /\ levels[i][2] = RemainingAt(orders, levels[i][1])
    /\ {levels[i][1] : i \in 1..Len(levels)} = {orders[i].price : i \in 1..Len(orders)}
    /\ \A i \in 1..(Len(levels) - 1) :
         IF side = "buy" THEN levels[i][1] > levels[i + 1][1]
                         ELSE levels[i][1] < levels[i + 1][1]

\* C33: GET_DEPTH, GET_OPEN_ORDERS and GET_BALANCE, for known or unknown
\* markets and users, leave the book (bids, asks, depth, lastTradeId,
\* currentPrice) and the whole ledger unchanged; GET_DEPTH returns the levels
\* with bids descending and asks ascending and no zero-quantity level, and
\* GET_OPEN_ORDERS returns exactly the resting orders of the user in the market
C33_QueriesDoNotMutate ==
    IsQuery =>
        /\ orderbook = pre.ob
        /\ balances = pre.bal
        /\ (last.type = "GET_DEPTH" /\ last.market = ticker(orderbook)) =>
             /\ Len(apiOut) = 1 /\ apiOut[1].type = "DEPTH"
             /\ LevelsOf(apiOut[1].payload.bids, orderbook.bids, "buy")
             /\ LevelsOf(apiOut[1].payload.asks, orderbook.asks, "sell")
        /\ (last.type = "GET_OPEN_ORDERS" /\ last.market = ticker(orderbook)) =>
             /\ Len(apiOut) = 1 /\ apiOut[1].type = "OPEN_ORDERS"
             /\ {apiOut[1].payload[i] : i \in 1..Len(apiOut[1].payload)} =
                  {o \in AllResting(orderbook) : o.userId = last.userId}
             /\ Len(apiOut[1].payload) =
                  Cardinality({o \in AllResting(orderbook) : o.userId = last.userId})

\* GET_OPEN_ORDERS returned a resting bid and a resting ask of the user
C33_Witness ==
    /\ last.type = "GET_OPEN_ORDERS"
    /\ Len(apiOut) = 1
    /\ \E i, j \in 1..Len(apiOut[1].payload) :
         apiOut[1].payload[i].side = "buy" /\ apiOut[1].payload[j].side = "sell"

\* GET_DEPTH returned two bid levels
C33_WitnessDepth ==
    /\ last.type = "GET_DEPTH"
    /\ Len(apiOut) = 1
    /\ Len(apiOut[1].payload.bids) = 2

(* ---------------- C34: locked funds and open orders ---------------- *)

\* what the resting bids of user u reserve of the quote asset
BidsValueOf(ob, u) ==
    SumSeq([i \in 1..Len(ob.bids) |->
              IF ob.bids[i].userId = u
              THEN (ob.bids[i].quantity - ob.bids[i].filled) * ob.bids[i].price ELSE 0])
\* what the resting asks of user u reserve of the base asset
AsksQuantityOf(ob, u) ==
    SumSeq([i \in 1..Len(ob.asks) |->
              IF ob.asks[i].userId = u
              THEN ob.asks[i].quantity - ob.asks[i].filled ELSE 0])
LockedOf(bal, u, a) == IF HasEntry(bal, u, a) THEN bal[u][a].locked ELSE 0

\* C34: under CANCEL_NEWEST, after every command each user's locked quote
\* balance equals the sum of (quantity - filled) * price over the user's
\* resting bids and the locked base balance the sum of quantity - filled over
\* the user's resting asks; a user without resting orders has nothing locked
C34_LockedMatchesOpenOrders ==
    \A u \in AllUsers :
        /\ LockedOf(balances, u, BASE_CURRENCY) = BidsValueOf(orderbook, u)
        /\ LockedOf(balances, u, "TATA") = AsksQuantityOf(orderbook, u)

\* the same for the base asset alone, which has no price to improve on
LockedBaseMatchesAsks ==
    \A u \in AllUsers : LockedOf(balances, u, "TATA") = AsksQuantityOf(orderbook, u)

(* ---------------- C35: users created by ON_RAMP ---------------- *)

\* the user holds the quote asset only, as ON_RAMP creates the entry
QuoteOnly(bal, u) == HasEntry(bal, u, BASE_CURRENCY) /\ ~HasEntry(bal, u, "TATA")
AvailableOf(bal, u, a) == IF HasEntry(bal, u, a) THEN bal[u][a].available ELSE 0
\* quantity and value the last command's fills took from the resting orders of user u
BoughtFrom(u) ==
    SumSeq([k \in 1..Len(last.fills) |->
              IF last.fills[k].otherUserId = u THEN last.fills[k].qty ELSE 0])
ValueFrom(u) ==
    SumSeq([k \in 1..Len(last.fills) |->
              IF last.fills[k].otherUserId = u
              THEN last.fills[k].qty * last.fills[k].price ELSE 0])

\* C35: a buy by a user whose entry was created by ON_RAMP that crosses
\* resting asks is answered with ORDER_PLACED, the bought quantity is credited
\* to a new base-asset entry of the user and the makers are paid; a resting
\* bid of such a user is settled completely when a seller hits it
C35_OnRampedUserTrades ==
    /\ (HasFills /\ last.side = "buy" /\ QuoteOnly(pre.bal, last.userId)) =>
         /\ Placed
         /\ AvailableOf(balances, last.userId, "TATA") = last.executedQty
         /\ HasEntry(balances, last.userId, "TATA")
         /\ \A m \in DOMAIN pre.bal \ {last.userId} :
              AvailableOf(balances, m, BASE_CURRENCY) =
                  AvailableOf(pre.bal, m, BASE_CURRENCY) + ValueFrom(m)
    /\ (HasFills /\ last.side = "sell") =>
         \A m \in DOMAIN pre.bal \ {last.userId} :
            (QuoteOnly(pre.bal, m) /\ BoughtFrom(m) > 0) =>
                /\ Placed
                /\ HasEntry(balances, m, "TATA")
                /\ AvailableOf(balances, m, "TATA") = BoughtFrom(m)
                /\ LockedOf(balances, m, BASE_CURRENCY) =
                     LockedOf(pre.bal, m, BASE_CURRENCY) - ValueFrom(m)
                /\ AvailableOf(balances, last.userId, BASE_CURRENCY) =
                     AvailableOf(pre.bal, last.userId, BASE_CURRENCY)
                       + SumSeq([k \in 1..Len(last.fills) |->
                                   last.fills[k].qty * last.fills[k].price])

\* the second half alone: a resting bid of an ON_RAMP-created user is hit
OnRampedMakerSettled ==
    (HasFills /\ last.side = "sell") =>
        \A m \in DOMAIN pre.bal \ {last.userId} :
            (QuoteOnly(pre.bal, m) /\ BoughtFrom(m) > 0) =>
                Placed /\ AvailableOf(balances, m, "TATA") = BoughtFrom(m)

(* ---------------- C36: locked funds cover the open orders ---------------- *)

\* what user u has locked covers every order of u that rests in the book
Covers(bal, ob, u) ==
    /\ LockedOf(bal, u, BASE_CURRENCY) >= BidsValueOf(ob, u)
    /\ LockedOf(bal, u, "TATA") >= AsksQuantityOf(ob, u)
    /\ LockedOf(bal, u, BASE_CURRENCY) >= 0
    /\ LockedOf(bal, u, "TATA") >= 0

\* C36: while every CREATE_ORDER so far had a positive price and a positive
\* quantity, the quote asset each user has locked is at least the value of the
\* open remainders of the user's resting bids, the base asset locked is at
\* least the open remainders of the user's resting asks, and no locked amount
\* is below zero: no two orders are backed by the same funds
C36_LockedCoversOpenOrders ==
    validOrders => \A u \in AllUsers : Covers(balances, orderbook, u)

\* a fill has been settled for a user who still has an order resting
C36_Witness ==
    /\ validOrders
    /\ HasFills /\ Placed
    /\ \E u \in AllUsers :
          /\ BidsValueOf(orderbook, u) + AsksQuantityOf(orderbook, u) > 0
          /\ \/ u = last.userId
             \/ \E k \in 1..Len(last.fills) : last.fills[k].otherUserId = u

\* a user with two resting orders has cancelled one of them
C36_WitnessCancel ==
    /\ validOrders
    /\ IsCancel /\ orderbook # pre.ob
    /\ \E u \in AllUsers :
          /\ BidsValueOf(pre.ob, u) > BidsValueOf(orderbook, u)
          /\ BidsValueOf(orderbook, u) > 0

(* ---------------- C37: no self-trade ---------------- *)

\* the resting orders of the taker's user that the last order crosses
OwnCrossingLeft(ob) == SelectSeq(OwnOpposite(ob), Crossing)

\* C37: in every STP mode no fill of an order has a maker of the taker's own
\* user, and an order that addOrder did not reject leaves no resting order of
\* its user on the opposite side at a crossing price: the matching loop never
\* has an own order to skip
C37_NoSelfTrade ==
    IsCreate =>
        /\ \A k \in 1..Len(last.fills) : last.fills[k].otherUserId # last.userId
        /\ NotRejected => OwnCrossingLeft(orderbook) = <<>>

\* an order with crossing own orders and a crossing order of another user was
\* matched (CANCEL_OLDEST): it traded with the other user only
C37_Witness ==
    /\ NotRejected
    /\ Len(Conflicts) > 0
    /\ HasFills
    /\ last.quantity > 0

\* under CANCEL_NEWEST the order with crossing own orders was rejected and
\* the own orders rest as before
C37_WitnessRejected ==
    /\ ReachedBook
    /\ pre.ob.stpMode = "CANCEL_NEWEST"
    /\ last.addStatus = "REJECTED"
    /\ Len(PreOpposite) >= 2
    /\ last.fills = <<>>
    /\ OwnCrossingLeft(orderbook) = Conflicts

(* ---------------- C38: funds of orders removed by STP ---------------- *)

\* the asset the removed orders of the taker's user had locked
ConflictAsset == IF last.side = "buy" THEN "TATA" ELSE BASE_CURRENCY
\* what CANCEL_ORDER would return for the open remainders of the removed orders
Released ==
    SumSeq([k \in 1..Len(Conflicts) |->
              IF last.side = "buy"
              THEN Conflicts[k].quantity - Conflicts[k].filled
              ELSE (Conflicts[k].quantity - Conflicts[k].filled) * Conflicts[k].price])

\* C38: when CANCEL_OLDEST or CANCEL_BOTH removes resting orders of the
\* taker's user, what those orders still had locked leaves the user's locked
\* balance, and (CANCEL_BOTH, where nothing else moves) is added to available,
\* as CANCEL_ORDER does
C38_StpRemovalReleasesFunds ==
    \A m \in {"CANCEL_OLDEST", "CANCEL_BOTH"} :
        (Removing(m) /\ HasEntry(pre.bal, last.userId, ConflictAsset)) =>
            /\ LockedOf(balances, last.userId, ConflictAsset) =
                 LockedOf(pre.bal, last.userId, ConflictAsset) - Released
            /\ m = "CANCEL_BOTH" =>
                 AvailableOf(balances, last.userId, ConflictAsset) =
                     AvailableOf(pre.bal, last.userId, ConflictAsset) + Released

(* ---------------- C39: the ORDER_UPDATE stream and the book ---------------- *)

\* the sum of executedQty over the ORDER_UPDATE events the last command
\* emitted for order oid: what the DB processor adds to executed_qty
UpdatesFor(oid) ==
    SumSeq([k \in 1..Len(dbOut) |->
              IF dbOut[k].type = "ORDER_UPDATE" /\ dbOut[k].data.orderId = oid
              THEN dbOut[k].data.executedQty ELSE 0])

\* the last command took the resting order o out of the book unfilled
TakenOut(o) ==
    \/ IsCancel /\ last.orderId = o.orderId
    \/ /\ ReachedBook /\ pre.ob.stpMode \in {"CANCEL_OLDEST", "CANCEL_BOTH"}
       /\ Conflicting(o)

\* by how much the last command raised the filled quantity of the order o
\* that rested before it: read off the book, or up to its quantity if the
\* order left the book filled
Progress(o) ==
    IF o.orderId \in IdsIn(orderbook) THEN Resting(orderbook, o.orderId).filled - o.filled
    ELSE IF TakenOut(o) THEN 0
    ELSE o.quantity - o.filled

\* the filled quantity of the order the last command placed
TakerFilled == IF Residue # <<>> THEN Residue[1].filled ELSE last.quantity

\* the events of the last command raise every order's accumulated
\* executedQty by exactly what the command filled of it
StreamFollowsBook ==
    /\ \A o \in AllResting(pre.ob) : UpdatesFor(o.orderId) = Progress(o)
    /\ NotRejected => UpdatesFor(last.orderId) = TakerFilled
    /\ \A k \in 1..Len(dbOut) :
          dbOut[k].type = "ORDER_UPDATE" =>
              /\ dbOut[k].data.orderId \in IdsIn(pre.ob) \cup {last.orderId}
              /\ dbOut[k].data.orderId = last.orderId => NotRejected

\* executedQty of ORDER_PLACED is the sum of the returned fills, at most the quantity
PlacedExecutedQty ==
    Placed =>
        /\ apiOut[1].payload.executedQty =
              SumSeq([k \in 1..Len(apiOut[1].payload.fills) |->
                        apiOut[1].payload.fills[k].qty])
        /\ apiOut[1].payload.executedQty <= last.quantity

\* C39: at every command boundary the executedQty summed over the
\* ORDER_UPDATE events emitted so far for an order id (one event with the
\* executed quantity when it is placed, one per fill as maker) equals the
\* order's filled quantity in the book, or its quantity if it was filled
\* completely; stated per command, from an empty book and an empty stream:
\* each command's events raise the sums by what the command filled.
\* ORDER_PLACED reports the sum of the fills' qty, at most the quantity
C39_StreamAgreesWithBook ==
    validOrders => (StreamFollowsBook /\ PlacedExecutedQty)

\* the same for commands of users who hold both assets
StreamAgreesForSeededUsers ==
    (validOrders /\ last.err # TypeError) => (StreamFollowsBook /\ PlacedExecutedQty)

====
